---------------------------- MODULE Spec2Model ----------------------------
(***************************************************************************)
(* Fixed-grid chunked reprojection engine (process_with_fixed_chunks) and  *)
(* its caller convert_to_cog, of the disasters-aws-conversion repository.  *)
(*                                                                         *)
(* Text (exception messages, dataset names) is a sequence of one-character *)
(* strings, so that str.lower() and the "in" substring test are computed.  *)
(* A chunk buffer is its shape and the set of values that occur in it;     *)
(* every numpy operation of the engine is element-wise, so the set of      *)
(* values after the operation is the image of the set before it.           *)
(* The destination file is the set of rectangles written so far per band   *)
(* plus a flag that records a write over pixels already written.           *)
(***************************************************************************)
EXTENDS Integers, Sequences, FiniteSets, TLC

\* ------------------------------------------------------------------ bounds
MaxDimUnits == 2
MaxChunkUnits == 4
MaxBands == 2

\* --------------------------------------------------------------- constants
SubChunkSize == 128
DefaultMemoryLimitMb == 500

\* -------------------------------------------------------------------- text
Upper == <<"A", "B", "C", "D", "E", "F", "G", "H", "I", "J", "K", "L", "M",
           "N", "O", "P", "Q", "R", "S", "T", "U", "V", "W", "X", "Y", "Z">>

LowerLetters == <<"a", "b", "c", "d", "e", "f", "g", "h", "i", "j", "k", "l", "m",
           "n", "o", "p", "q", "r", "s", "t", "u", "v", "w", "x", "y", "z">>

LowerOfUpper == [c \in {Upper[i] : i \in 1..26} |->
                    LowerLetters[CHOOSE i \in 1..26 : Upper[i] = c]]

LowerChar(c) == IF c \in DOMAIN LowerOfUpper THEN LowerOfUpper[c] ELSE c

\* str.lower()
Lower(s) == [i \in 1..Len(s) |-> LowerChar(s[i])]

\* the Python test "p in s" on strings
Contains(s, p) ==
    \E i \in 0..(Len(s) - Len(p)) : SubSeq(s, i + 1, i + Len(p)) = p

StrCurl == <<"c", "u", "r", "l">>
StrVsi == <<"v", "s", "i">>
StrChunkAndWarp == <<"c", "h", "u", "n", "k", " ", "a", "n", "d", " ", "w", "a", "r", "p">>
StrVsis3 == <<"/", "v", "s", "i", "s", "3", "/">>

\* "STREAMING_CHUNK_ERROR: Need to retry with download"
StreamingChunkErrorMsg ==
    <<"S", "T", "R", "E", "A", "M", "I", "N", "G", "_", "C", "H", "U", "N", "K",
      "_", "E", "R", "R", "O", "R", ":", " ", "N", "e", "e", "d", " ", "t", "o",
      " ", "r", "e", "t", "r", "y", " ", "w", "i", "t", "h", " ", "d", "o", "w",
      "n", "l", "o", "a", "d">>

\* Messages the external reprojection primitive can fail with.
MsgCurl == <<"C", "U", "R", "L", " ", "e", "r", "r", "o", "r", " ", "2", "8">>
MsgVsi == <<"V", "S", "I", " ", "r", "e", "a", "d", " ", "f", "a", "i", "l", "e", "d">>
MsgChunkAndWarp ==
    <<"C", "h", "u", "n", "k", " ", "a", "n", "d", " ", "w", "a", "r", "p", " ",
      "f", "a", "i", "l", "e", "d">>
MsgBadBlock == <<"b", "a", "d", " ", "b", "l", "o", "c", "k">>

ReprojectErrors == {MsgCurl, MsgVsi, MsgChunkAndWarp, MsgBadBlock}

\* Messages of numpy and of the dataset writer on an array of Python objects.
MsgUfuncObject ==
    <<"u", "f", "u", "n", "c", " ", "'", "i", "s", "i", "n", "f", "'", " ",
      "n", "o", "t", " ", "s", "u", "p", "p", "o", "r", "t", "e", "d", " ",
      "f", "o", "r", " ", "t", "h", "e", " ", "i", "n", "p", "u", "t", " ",
      "t", "y", "p", "e", "s">>
MsgWriteObject ==
    <<"i", "n", "v", "a", "l", "i", "d", " ", "d", "t", "y", "p", "e", ":",
      " ", "'", "o", "b", "j", "e", "c", "t", "'">>

\* Messages of the exceptions convert_to_cog raises or lets through.
StrStreamingChunkError ==
    <<"s", "t", "r", "e", "a", "m", "i", "n", "g", "_", "c", "h", "u", "n",
      "k", "_", "e", "r", "r", "o", "r">>
\* str() of the TypeError of np.copyto for a value it cannot cast
MsgCannotCast ==
    <<"C", "a", "n", "n", "o", "t", " ", "c", "a", "s", "t">>

\* str() of the error of a dst.write that fails
MsgWriteFailed ==
    <<"w", "r", "i", "t", "e", " ", "f", "a", "i", "l", "e", "d">>

MsgFileExists ==
    <<"F", "i", "l", "e", " ", "a", "l", "r", "e", "a", "d", "y", " ", "e",
      "x", "i", "s", "t", "s", ":", " ", "o", "u", "t", ".", "t", "i", "f">>
MsgDownloadFailed ==
    <<"F", "a", "i", "l", "e", "d", " ", "t", "o", " ", "d", "o", "w", "n",
      "l", "o", "a", "d", " ", "f", "i", "l", "e", " ", "f", "r", "o", "m",
      " ", "S", "3">>
MsgCreateFailed ==
    <<"F", "a", "i", "l", "e", "d", " ", "t", "o", " ", "c", "r", "e", "a",
      "t", "e", " ", "C", "O", "G">>
MsgUploadFailed ==
    <<"F", "a", "i", "l", "e", "d", " ", "t", "o", " ", "u", "p", "l", "o",
      "a", "d", " ", "C", "O", "G", " ", "t", "o", " ", "S", "3">>
MsgOpenFailed ==
    <<"n", "o", "t", " ", "a", " ", "s", "u", "p", "p", "o", "r", "t", "e",
      "d", " ", "f", "i", "l", "e", " ", "f", "o", "r", "m", "a", "t">>
MsgClientError ==
    <<"A", "n", " ", "e", "r", "r", "o", "r", " ", "o", "c", "c", "u", "r",
      "r", "e", "d", " ", "(", "4", "0", "3", ")">>

\* Source dataset names: f"/vsis3/{bucket}/{name}" and f"data_download/{name}"
\* for bucket "b" and key "k.tif".
StreamingPath == <<"/", "v", "s", "i", "s", "3", "/", "b", "/", "k", ".", "t", "i", "f">>
LocalDownloadPath ==
    <<"d", "a", "t", "a", "_", "d", "o", "w", "n", "l", "o", "a", "d", "/",
      "k", ".", "t", "i", "f">>

SourceNames == {StreamingPath, LocalDownloadPath}

None == "None"
NoMsg == <<>>

\* ---------------------------------------------------------------- geometry
Min(a, b) == IF a < b THEN a ELSE b

Window(x, y, w, h) == [x |-> x, y |-> y, w |-> w, h |-> h]

Area(r) == r.w * r.h

Overlap(r, s) ==
    /\ r.x < s.x + s.w
    /\ s.x < r.x + r.w
    /\ r.y < s.y + s.h
    /\ s.y < r.y + r.h

Inside(r, s) ==
    /\ s.x <= r.x
    /\ s.y <= r.y
    /\ r.x + r.w <= s.x + s.w
    /\ r.y + r.h <= s.y + s.h

RECURSIVE SumArea(_)
SumArea(S) ==
    IF S = {} THEN 0
    ELSE LET r == CHOOSE r \in S : TRUE IN Area(r) + SumArea(S \ {r})

\* The rectangles of S tile the rectangle R: inside R, pairwise disjoint,
\* none empty, and of total area Area(R).
Tiles(S, R) ==
    /\ \A r \in S : r.w > 0 /\ r.h > 0 /\ Inside(r, R)
    /\ \A r, s \in S : r # s => ~Overlap(r, s)
    /\ SumArea(S) = Area(R)

\* calculate_chunk_grid: the list of chunks in generation order.
calculate_chunk_grid(w, h, cs) ==
    LET chunks_x == (w + cs - 1) \div cs
        chunks_y == (h + cs - 1) \div cs
        total == chunks_x * chunks_y
        chunk(k) ==
            LET x_idx == (k - 1) % chunks_x
                y_idx == (k - 1) \div chunks_x
                x == x_idx * cs
                y == y_idx * cs
            IN  [index |-> <<x_idx, y_idx>>,
                 window |-> Window(x, y, Min(cs, w - x), Min(cs, h - y))]
    IN  [chunk_size |-> cs,
         chunks_x |-> chunks_x,
         chunks_y |-> chunks_y,
         total_chunks |-> total,
         chunks |-> [k \in 1..total |-> chunk(k)]]


\* ------------------------------------------------------------------- state
VARIABLES
    entry,           \* the function called from outside
    pc,              \* position of the control flow
    exc,             \* the exception in flight or raised, [type, msg], or NoExc
    src,             \* the open source dataset [name, count, nodata, dtype]
    width,           \* destination width
    height,          \* destination height
    chunk_config,    \* the chunk configuration of the current call
    src_nodata,      \* process_with_fixed_chunks argument
    dst_nodata,      \* process_with_fixed_chunks argument / local
    band_idx,
    chunk_x,
    chunk_y,
    sub_x,
    sub_y,
    chunk_iterator,  \* outer chunks completed in the current band (tqdm count)
    current_memory,  \* the reading taken for the current outer chunk
    dst_written,     \* rectangles written to the destination, per band
    dst_rewritten,   \* a write has covered pixels that were already written
    last_op,         \* the last chunk or sub-chunk iteration, as observed
    impl,            \* the module whose convert_to_cog runs
    HAS_GDAL_PROCESSOR,
    HAS_RIO_COGEO,
    file_size_gb,    \* size of the source object, in tenths of a GB
    s3_exists,       \* the destination key exists in the destination bucket
    overwrite,       \* convert_to_cog argument of the current call
    manual_nodata,   \* convert_to_cog argument of the current call
    input_path,      \* the path the current call reads the source from
    temp_files,      \* temp_files of the current call
    stack,           \* the suspended calls of convert_to_cog, outermost first
    files,           \* the local files that exist
    opened,          \* [attempt, path] of every source path opened so far
    dst_opened,      \* attempts that opened the destination file in 'w' mode
    uploads,         \* attempts that uploaded to the destination key
    call,            \* a function called on its own: its name and arguments
    outcome,         \* what the successive applications of it gave
    callers_config,  \* the contents of the dict the outside caller passed
    config_is_callers, \* chunk_config of the current call is that very dict
    chunk_window,    \* process_band_with_chunks: the window of the iteration
    total_chunks,    \* process_band_with_chunks local
    processed_chunks, \* process_band_with_chunks local
    dst_band,        \* the windows of dst_band that have been written
    stats,           \* ParallelCOGProcessor.stats
    results,         \* _process_parallel local: the results appended so far
    future_to_task   \* _process_parallel local: the state of each task's future

engine_vars == <<src, width, height, src_nodata, dst_nodata, band_idx, chunk_x,
                 chunk_y, sub_x, sub_y, chunk_iterator, current_memory,
                 dst_written, dst_rewritten, last_op>>

caller_vars == <<impl, HAS_GDAL_PROCESSOR, HAS_RIO_COGEO, file_size_gb, s3_exists,
                 overwrite, manual_nodata, input_path, temp_files, stack, files,
                 opened, dst_opened, uploads>>

band_vars == <<chunk_window, total_chunks, processed_chunks, dst_band>>

batch_vars == <<stats, results, future_to_task>>

pure_vars == <<call, outcome, band_vars, batch_vars>>

object_vars == <<callers_config, config_is_callers>>

vars == <<entry, pc, exc, chunk_config, engine_vars, caller_vars, pure_vars,
          object_vars>>

NoExc == [type |-> "none", msg |-> NoMsg]

NoCall == [fn |-> "none"]

\* chunk_config=None, the default of the parameter
NoConfig == [none |-> TRUE]

\* ParallelCOGProcessor.__init__: self.stats
NewStats == [total |-> 0, completed |-> 0, failed |-> 0, skipped |-> 0]

\* no call of process_band_with_chunks in the run
IdleBand ==
    /\ chunk_window = [x |-> 0, y |-> 0, w |-> 0, h |-> 0]
    /\ total_chunks = 0
    /\ processed_chunks = 0
    /\ dst_band = {}

\* no ParallelCOGProcessor in the run
IdleBatch ==
    /\ stats = NewStats
    /\ results = <<>>
    /\ future_to_task = <<>>

IdleHelpers == IdleBand /\ IdleBatch

\* ------------------------------------------------------------ input domains
\* 256, 400, ...: rasters that are and that are not a whole number of chunks
Dims == {112 + 144 * k : k \in 1..MaxDimUnits}
ChunkSizes == {64 * k : k \in 2..MaxChunkUnits}
BandCounts == 1..MaxBands
\* a raster of 3 x 4 chunks of 256, whose last chunk is at (512, 768)
LargeRaster == [width |-> 768, height |-> 1024, chunk_size |-> 256]
MemReadings == {DefaultMemoryLimitMb, DefaultMemoryLimitMb + 1}
Dtypes == {"float32", "uint8"}
SrcNodataValues == {None, "ndS"}
DstNodataValues == {None, "ndD"}

IsFloating(dtype) == dtype = "float32"

\* chunk_config.get('memory_limit_mb', 500)
memory_limit_mb(cfg) ==
    IF "memory_limit_mb" \in DOMAIN cfg THEN cfg.memory_limit_mb ELSE DefaultMemoryLimitMb

\* chunk_config.get('aggressive_gc', False)
aggressive_gc(cfg) ==
    IF "aggressive_gc" \in DOMAIN cfg THEN cfg.aggressive_gc ELSE FALSE

\* chunk_config.get('enable_memory_monitoring', True)
enable_memory_monitoring(cfg) ==
    IF "enable_memory_monitoring" \in DOMAIN cfg THEN cfg.enable_memory_monitoring ELSE TRUE

\* the two keys present with either value, or absent
GcOptions == {<<>>, "aggressive_gc" :> TRUE, "aggressive_gc" :> FALSE}
MonitoringOptions ==
    {<<>>, "enable_memory_monitoring" :> TRUE, "enable_memory_monitoring" :> FALSE}

\* ------------------------------------------------------------ chunk buffers
\* np.full(shape, value)
np_full(shape, value) == [shape |-> shape, vals |-> {value}]

\* no buffer at all
NoBuffer == [shape |-> <<0, 0>>, vals |-> {}]

\* fill() that leaves the buffer as the failed reprojection left it
fill_noop(buf, value) == buf

\* ndarray.fill(value)
fill(buf, value) == [buf EXCEPT !.vals = {value}]

\* dst_nodata if dst_nodata is not None else 0
FillValue(nd) == IF nd # None THEN nd ELSE "0"

\* the value of the pixels that the source file marks as no-data
SourceSentinel == "ndS"

\* reproject(..., src_nodata=, dst_nodata=) on one source pixel: a pixel equal
\* to the src_nodata argument is masked and comes out as the destination
\* fill value, every other pixel is copied
reproject_pixel(v, src_nd, fillv) == IF src_nd # None /\ v = src_nd THEN fillv ELSE v

\* What the reprojection primitive can leave in a buffer: source values,
\* the source's no-data pixels as the src_nodata argument has them treated,
\* the fill value where no source pixel maps, and for a floating-point band
\* NaN and infinities computed from the source.
ReprojectOutputs(dtype, src_nd, fillv) ==
    {{"v"}, {"v", fillv},
     {reproject_pixel(v, src_nd, fillv) : v \in {"v", SourceSentinel}}}
      \cup (IF IsFloating(dtype)
            THEN {{"v", "NaN"}, {"Inf", "-Inf", fillv}}
            ELSE {})

\* check_and_fix_nan_values(data, nodata_value, dtype)[0]
check_and_fix_nan_values(data, nodata_value, dtype) ==
    LET nan_fixed ==
            IF IsFloating(dtype) /\ "NaN" \in data.vals
            THEN [data EXCEPT !.vals = {IF v = "NaN" THEN nodata_value ELSE v : v \in data.vals}]
            ELSE data
    IN  IF IsFloating(dtype) /\ (nan_fixed.vals \cap {"Inf", "-Inf"}) # {}
        THEN [nan_fixed EXCEPT !.vals =
                 {IF v \in {"Inf", "-Inf"} THEN nodata_value ELSE v : v \in nan_fixed.vals}]
        ELSE nan_fixed

\* np.where(mask, None, data) is an array of Python objects, on which
\* np.isnan and np.isinf raise TypeError: the fix raises on a floating-point
\* band when it is given such an array, or when it has replaced NaN by a
\* no-data value of None and goes on to test for infinities.
check_and_fix_raises(data, nodata_value, dtype) ==
    /\ IsFloating(dtype)
    /\ \/ None \in data.vals
       \/ nodata_value = None /\ "NaN" \in data.vals

\* dst.write(chunk_data, band_idx, window=...): an array of the band's type
\* is stored as it is; an array of Python objects is refused, or converted
\* to the band's type, which turns None into NaN.
WriteOutcomes(data) ==
    IF None \in data.vals
    THEN {[ok |-> FALSE, data |-> data],
          [ok |-> TRUE,
           data |-> [data EXCEPT !.vals = {IF v = None THEN "NaN" ELSE v : v \in @}]]}
    ELSE {[ok |-> TRUE, data |-> data]}

\* ------------------------------------------------- process_with_fixed_chunks
FIXED_CHUNK_SIZE == chunk_config.default_chunk_size

\* an edge window padded to the full chunk size
OuterWindowPadded ==
    Window(chunk_x, chunk_y, FIXED_CHUNK_SIZE, FIXED_CHUNK_SIZE)

\* a window that runs from the chunk origin to the raster edge
OuterWindowToEdge ==
    Window(chunk_x, chunk_y, width - chunk_x, height - chunk_y)

OuterWindow ==
    Window(chunk_x, chunk_y,
           Min(FIXED_CHUNK_SIZE, width - chunk_x),
           Min(FIXED_CHUNK_SIZE, height - chunk_y))

\* sub-windows laid out as halves of the outer window
SubWindowHalves ==
    Window(chunk_x + (sub_x \div SubChunkSize) * (OuterWindow.w \div 2),
           chunk_y + (sub_y \div SubChunkSize) * (OuterWindow.h \div 2),
           Min(SubChunkSize, OuterWindow.w - sub_x),
           Min(SubChunkSize, OuterWindow.h - sub_y))

\* sub-windows of the full sub-chunk size whatever is left of the outer window
SubWindowUnclipped ==
    Window(chunk_x + sub_x, chunk_y + sub_y, SubChunkSize, SubChunkSize)

SubWindow ==
    Window(chunk_x + sub_x, chunk_y + sub_y,
           Min(SubChunkSize, OuterWindow.w - sub_x),
           Min(SubChunkSize, OuterWindow.h - sub_y))

\* subdivision as soon as one axis of the window exceeds the sub-chunk size
UseSubChunksEitherAxis(mem) ==
    /\ mem > memory_limit_mb(chunk_config)
    /\ \/ OuterWindow.w > SubChunkSize
       \/ OuterWindow.h > SubChunkSize

\* memory_safe_mode and win_width > 128 and win_height > 128
UseSubChunks(mem) ==
    /\ mem > memory_limit_mb(chunk_config)
    /\ OuterWindow.w > SubChunkSize
    /\ OuterWindow.h > SubChunkSize

\* "<pattern>" in str(reproject_error).lower(), for each message the
\* reprojection primitive can fail with
ErrorText ==
    [msg \in ReprojectErrors |->
        [curl |-> Contains(Lower(msg), StrCurl),
         vsi |-> Contains(Lower(msg), StrVsi),
         chunk_and_warp |-> Contains(Lower(msg), StrChunkAndWarp)]]

\* "/vsis3/" in str(getattr(src, 'name', ''))
IsVsis3 == [name \in SourceNames |-> Contains(name, StrVsis3)]

\* the streaming test of the sub-chunk handler
SubChunkIsStreamingError(msg) ==
    /\ ErrorText[msg].chunk_and_warp
    /\ IsVsis3[src.name]

\* the streaming test without the test of the source name
DirectChunkIsStreamingErrorAnySource(msg) ==
    \/ ErrorText[msg].curl
    \/ ErrorText[msg].vsi
    \/ ErrorText[msg].chunk_and_warp

\* the streaming test of the full-chunk handler
DirectChunkIsStreamingError(msg) ==
    /\ \/ ErrorText[msg].curl
       \/ ErrorText[msg].vsi
       \/ ErrorText[msg].chunk_and_warp
    /\ IsVsis3[src.name]

\* Outcomes of one call of reproject(): success with the buffer overwritten,
\* or an exception after the buffer was overwritten in part.
ReprojectOutcomes ==
    LET outs == ReprojectOutputs(src.dtype, src_nodata, FillValue(dst_nodata))
    IN  [ok : {TRUE}, msg : {NoMsg}, vals : outs]
          \cup [ok : {FALSE}, msg : ReprojectErrors,
                vals : {{"v", FillValue(dst_nodata)}}]

Rect(band, win) == [band |-> band, x |-> win.x, y |-> win.y, w |-> win.w, h |-> win.h]

RectWindow(r) == Window(r.x, r.y, r.w, r.h)

\* dst.write(chunk_data, band_idx, window=win) as seen in the file
WriteRewrites(band, win) ==
    \E r \in dst_written : r.band = band /\ Overlap(RectWindow(r), win)

\* The rectangles of one band inside an outer window that tile it exactly
\* cover the same pixels, once each, as the outer window written once.
Coalesce(written, band, outer) ==
    LET parts == {r \in written : r.band = band /\ Inside(RectWindow(r), outer)}
    IN  IF parts # {} /\ Tiles({RectWindow(r) : r \in parts}, outer)
        THEN (written \ parts) \cup {Rect(band, outer)}
        ELSE written

\* The pc a normal return of process_with_fixed_chunks leads to.
ReturnPc ==
    IF entry \in {"process_with_fixed_chunks", "process_whole_file", "retry_with_download"}
    THEN "returned" ELSE "cogify"

\* The pc an exception leaving process_with_fixed_chunks leads to.
RaisePc ==
    IF entry \in {"process_with_fixed_chunks", "process_whole_file"} THEN "raised"
    ELSE IF entry = "retry_with_download"
    THEN (IF stack = <<>> THEN "retry_except" ELSE "raised")
    ELSE "except"

\* Lines 194-213: default dst_nodata, start the band loop.
BeginFixedChunks ==
    /\ pc = "fixed_chunks"
    /\ dst_nodata' = IF dst_nodata = None THEN src_nodata ELSE dst_nodata
    /\ band_idx' = 1
    /\ chunk_x' = 0
    /\ chunk_y' = 0
    /\ chunk_iterator' = 0
    /\ pc' = IF src.count >= 1 THEN "chunk_loop" ELSE ReturnPc
    /\ UNCHANGED <<caller_vars, entry, exc, chunk_config, src, width, height, src_nodata,
                   sub_x, sub_y, current_memory, dst_written, dst_rewritten,
                   last_op>>
    /\ UNCHANGED <<pure_vars, object_vars>>

\* loop headers that run one more iteration at the right and bottom edge
NextOuterChunkInclusive ==
    IF chunk_x + FIXED_CHUNK_SIZE <= width
    THEN /\ chunk_x' = chunk_x + FIXED_CHUNK_SIZE
         /\ chunk_iterator' = chunk_iterator + 1
         /\ UNCHANGED <<chunk_y, band_idx>>
         /\ pc' = "chunk_loop"
    ELSE IF chunk_y + FIXED_CHUNK_SIZE <= height
    THEN /\ chunk_x' = 0
         /\ chunk_y' = chunk_y + FIXED_CHUNK_SIZE
         /\ chunk_iterator' = chunk_iterator + 1
         /\ UNCHANGED band_idx
         /\ pc' = "chunk_loop"
    ELSE IF band_idx < src.count
    THEN /\ chunk_x' = 0
         /\ chunk_y' = 0
         /\ chunk_iterator' = 0
         /\ band_idx' = band_idx + 1
         /\ pc' = "chunk_loop"
    ELSE /\ UNCHANGED <<chunk_x, chunk_y, band_idx>>
         /\ chunk_iterator' = chunk_iterator + 1
         /\ pc' = ReturnPc

\* loop headers whose step follows the memory reading (a chunk size that
\* changes mid-loop)
NextOuterChunkAdaptive ==
    LET step == IF current_memory > memory_limit_mb(chunk_config)
                THEN SubChunkSize ELSE FIXED_CHUNK_SIZE
    IN  IF chunk_x + step < width
        THEN /\ chunk_x' = chunk_x + step
             /\ chunk_iterator' = chunk_iterator + 1
             /\ UNCHANGED <<chunk_y, band_idx>>
             /\ pc' = "chunk_loop"
        ELSE IF chunk_y + step < height
        THEN /\ chunk_x' = 0
             /\ chunk_y' = chunk_y + step
             /\ chunk_iterator' = chunk_iterator + 1
             /\ UNCHANGED band_idx
             /\ pc' = "chunk_loop"
        ELSE IF band_idx < src.count
        THEN /\ chunk_x' = 0
             /\ chunk_y' = 0
             /\ chunk_iterator' = 0
             /\ band_idx' = band_idx + 1
             /\ pc' = "chunk_loop"
        ELSE /\ UNCHANGED <<chunk_x, chunk_y, band_idx>>
             /\ chunk_iterator' = chunk_iterator + 1
             /\ pc' = ReturnPc

\* chunk_iterator.update(1) and the loop headers: the next outer chunk, the
\* next band, or the return.
\* the outer loops nested the other way: down each column, then the next
NextOuterChunkColumnMajor ==
    IF chunk_y + FIXED_CHUNK_SIZE < height
    THEN /\ chunk_y' = chunk_y + FIXED_CHUNK_SIZE
         /\ chunk_iterator' = chunk_iterator + 1
         /\ UNCHANGED <<chunk_x, band_idx>>
         /\ pc' = "chunk_loop"
    ELSE IF chunk_x + FIXED_CHUNK_SIZE < width
    THEN /\ chunk_y' = 0
         /\ chunk_x' = chunk_x + FIXED_CHUNK_SIZE
         /\ chunk_iterator' = chunk_iterator + 1
         /\ UNCHANGED band_idx
         /\ pc' = "chunk_loop"
    ELSE IF band_idx < src.count
    THEN /\ chunk_x' = 0
         /\ chunk_y' = 0
         /\ chunk_iterator' = 0
         /\ band_idx' = band_idx + 1
         /\ pc' = "chunk_loop"
    ELSE /\ UNCHANGED <<chunk_x, chunk_y, band_idx>>
         /\ chunk_iterator' = chunk_iterator + 1
         /\ pc' = ReturnPc

NextOuterChunk ==
    IF chunk_x + FIXED_CHUNK_SIZE < width
    THEN /\ chunk_x' = chunk_x + FIXED_CHUNK_SIZE
         /\ chunk_iterator' = chunk_iterator + 1
         /\ UNCHANGED <<chunk_y, band_idx>>
         /\ pc' = "chunk_loop"
    ELSE IF chunk_y + FIXED_CHUNK_SIZE < height
    THEN /\ chunk_x' = 0
         /\ chunk_y' = chunk_y + FIXED_CHUNK_SIZE
         /\ chunk_iterator' = chunk_iterator + 1
         /\ UNCHANGED band_idx
         /\ pc' = "chunk_loop"
    ELSE IF band_idx < src.count
    THEN /\ chunk_x' = 0
         /\ chunk_y' = 0
         /\ chunk_iterator' = 0
         /\ band_idx' = band_idx + 1
         /\ pc' = "chunk_loop"
    ELSE /\ UNCHANGED <<chunk_x, chunk_y, band_idx>>
         /\ chunk_iterator' = chunk_iterator + 1
         /\ pc' = ReturnPc

\* the iteration is the last one of its band: the loops over sub_y, sub_x,
\* chunk_y and chunk_x are all at their last value
EndsBand(kind) ==
    /\ kind \in {"direct", "sub"}
    /\ kind = "sub" =>
        /\ sub_x + SubChunkSize >= OuterWindow.w
        /\ sub_y + SubChunkSize >= OuterWindow.h
    /\ chunk_x + FIXED_CHUNK_SIZE >= width
    /\ chunk_y + FIXED_CHUNK_SIZE >= height

\* gc.collect() after the write of a sub-chunk, whatever the configuration
\* says, only if it is aggressive
SubChunkCollectsIfAggressive(cfg) == aggressive_gc(cfg)

\* gc.collect() after the write of a sub-chunk
SubChunkCollects(cfg) == TRUE

\* What an iteration did: its buffer, the reprojection's outcome, what was
\* written, the collections run after the write and after the band, and
\* whether the memory was sampled after the band.
Observation(kind, win, mem, buf0, out, raised, written) ==
    LET done == written # NoBuffer
        band_end == done /\ EndsBand(kind)
    IN  [kind |-> kind, band |-> band_idx, window |-> win, memory |-> mem,
         prefill |-> buf0, src_nodata |-> src_nodata, dst_nodata |-> dst_nodata,
         reprojected |-> out.vals,
         failed |-> ~out.ok, error |-> out.msg, raised |-> raised, written |-> written,
         gc_after_write |-> /\ done
                            /\ \/ kind = "whole"
                               \/ kind = "sub" /\ SubChunkCollects(chunk_config)
                               \/ kind = "direct" /\ aggressive_gc(chunk_config),
         memory_sampled |-> band_end /\ enable_memory_monitoring(chunk_config),
         gc_after_band |-> band_end /\ aggressive_gc(chunk_config)]

\* the streaming error raised only after the iteration's buffer is written
StreamingAbortAfterWrite(kind, win, mem, chunk_data, out) ==
    /\ exc' = [type |-> "Exception", msg |-> StreamingChunkErrorMsg]
    /\ pc' = RaisePc
    /\ last_op' = Observation(kind, win, mem, chunk_data, out, TRUE, NoBuffer)
    /\ dst_written' = dst_written \cup {Rect(band_idx, win)}
    /\ UNCHANGED <<chunk_x, chunk_y, band_idx, sub_x, sub_y, chunk_iterator,
                   dst_rewritten>>

\* the streaming error swallowed: the function returns as if it were done
StreamingAbortReturns(kind, win, mem, chunk_data, out) ==
    /\ pc' = ReturnPc
    /\ last_op' = Observation(kind, win, mem, chunk_data, out, FALSE, NoBuffer)
    /\ UNCHANGED <<exc, chunk_x, chunk_y, band_idx, sub_x, sub_y, chunk_iterator,
                   dst_written, dst_rewritten>>

\* raise Exception("STREAMING_CHUNK_ERROR: Need to retry with download")
\* from inside the except block: nothing of the iteration is written, the
\* loops are left.
StreamingAbort(kind, win, mem, chunk_data, out) ==
    /\ exc' = [type |-> "Exception", msg |-> StreamingChunkErrorMsg]
    /\ pc' = RaisePc
    /\ last_op' = Observation(kind, win, mem, chunk_data, out, TRUE, NoBuffer)
    /\ UNCHANGED <<chunk_x, chunk_y, band_idx, sub_x, sub_y, chunk_iterator,
                   dst_written, dst_rewritten>>

\* an exception of the NaN fix or of the write, neither of which is inside a
\* try block: nothing of the iteration is written, the loops are left.
Abort(kind, win, mem, chunk_data, out, type, msg) ==
    /\ exc' = [type |-> type, msg |-> msg]
    /\ pc' = RaisePc
    /\ last_op' = Observation(kind, win, mem, chunk_data, out, FALSE, NoBuffer)
    /\ UNCHANGED <<chunk_x, chunk_y, band_idx, sub_x, sub_y, chunk_iterator,
                   dst_written, dst_rewritten>>

\* Lines 290-344: one outer chunk reprojected and written as a unit.
ProcessDirectChunk ==
    /\ pc = "chunk_loop"
    /\ \E mem \in MemReadings, out \in ReprojectOutcomes :
        /\ ~UseSubChunks(mem)
        /\ current_memory' = mem
        /\ LET window == OuterWindow
               chunk_data == np_full(<<window.h, window.w>>, FillValue(dst_nodata))
               reprojected == [chunk_data EXCEPT !.vals = out.vals]
           IN  IF ~out.ok /\ DirectChunkIsStreamingError(out.msg)
               THEN StreamingAbort("direct", window, mem, chunk_data, out)
               ELSE LET recovered == IF out.ok THEN reprojected
                                     ELSE fill(reprojected, FillValue(dst_nodata))
                        fixed == check_and_fix_nan_values(recovered, dst_nodata, src.dtype)
                    IN  IF check_and_fix_raises(recovered, dst_nodata, src.dtype)
                        THEN Abort("direct", window, mem, chunk_data, out,
                                   "TypeError", MsgUfuncObject)
                        ELSE \E wr \in WriteOutcomes(fixed) :
                            IF ~wr.ok
                            THEN Abort("direct", window, mem, chunk_data, out,
                                       "TypeError", MsgWriteObject)
                            ELSE /\ dst_written' = dst_written \cup {Rect(band_idx, window)}
                                 /\ dst_rewritten' = (dst_rewritten \/ WriteRewrites(band_idx, window))
                                 /\ last_op' = Observation("direct", window, mem, chunk_data, out, FALSE, wr.data)
                                 /\ NextOuterChunk
                                 /\ UNCHANGED <<exc, sub_x, sub_y>>
    /\ UNCHANGED <<caller_vars, entry, chunk_config, src, width, height, src_nodata, dst_nodata>>
    /\ UNCHANGED <<pure_vars, object_vars>>

\* Lines 228-233: memory pressure on a window larger than 128 in both axes.
EnterSubChunks ==
    /\ pc = "chunk_loop"
    /\ \E mem \in MemReadings :
        /\ UseSubChunks(mem)
        /\ current_memory' = mem
    /\ sub_x' = 0
    /\ sub_y' = 0
    /\ pc' = "sub_loop"
    /\ UNCHANGED <<caller_vars, entry, exc, chunk_config, src, width, height, src_nodata,
                   dst_nodata, band_idx, chunk_x, chunk_y, chunk_iterator,
                   dst_written, dst_rewritten, last_op>>
    /\ UNCHANGED <<pure_vars, object_vars>>

\* The loop headers of the sub-chunk loops, then those of the outer loops.
NextSubChunk(written) ==
    IF sub_x + SubChunkSize < OuterWindow.w
    THEN /\ sub_x' = sub_x + SubChunkSize
         /\ UNCHANGED <<sub_y, chunk_x, chunk_y, band_idx, chunk_iterator>>
         /\ pc' = "sub_loop"
         /\ dst_written' = written
    ELSE IF sub_y + SubChunkSize < OuterWindow.h
    THEN /\ sub_x' = 0
         /\ sub_y' = sub_y + SubChunkSize
         /\ UNCHANGED <<chunk_x, chunk_y, band_idx, chunk_iterator>>
         /\ pc' = "sub_loop"
         /\ dst_written' = written
    ELSE /\ UNCHANGED <<sub_x, sub_y>>
         /\ dst_written' = Coalesce(written, band_idx, OuterWindow)
         /\ NextOuterChunk

\* Lines 234-287: one sub-chunk reprojected and written.
ProcessSubChunk ==
    /\ pc = "sub_loop"
    /\ \E out \in ReprojectOutcomes :
        LET dst_window == SubWindow
            chunk_data == np_full(<<dst_window.h, dst_window.w>>, FillValue(dst_nodata))
            reprojected == [chunk_data EXCEPT !.vals = out.vals]
        IN  IF ~out.ok /\ SubChunkIsStreamingError(out.msg)
            THEN StreamingAbort("sub", dst_window, current_memory, chunk_data, out)
            ELSE LET recovered == IF out.ok THEN reprojected
                                  ELSE fill(reprojected, FillValue(dst_nodata))
                     fixed == check_and_fix_nan_values(recovered, dst_nodata, src.dtype)
                 IN  IF check_and_fix_raises(recovered, dst_nodata, src.dtype)
                     THEN Abort("sub", dst_window, current_memory, chunk_data, out,
                                "TypeError", MsgUfuncObject)
                     ELSE \E wr \in WriteOutcomes(fixed) :
                         IF ~wr.ok
                         THEN Abort("sub", dst_window, current_memory, chunk_data, out,
                                    "TypeError", MsgWriteObject)
                         ELSE /\ dst_rewritten' = (dst_rewritten \/ WriteRewrites(band_idx, dst_window))
                              /\ last_op' = Observation("sub", dst_window, current_memory, chunk_data, out, FALSE, wr.data)
                              /\ NextSubChunk(dst_written \cup {Rect(band_idx, dst_window)})
                              /\ UNCHANGED exc
    /\ UNCHANGED <<caller_vars, entry, chunk_config, src, width, height, src_nodata, dst_nodata,
                   current_memory>>
    /\ UNCHANGED <<pure_vars, object_vars>>

EngineNext ==
    \/ BeginFixedChunks
    \/ ProcessDirectChunk
    \/ EnterSubChunks
    \/ ProcessSubChunk

NoOp ==
    [kind |-> "none", band |-> 0, window |-> Window(0, 0, 0, 0), memory |-> 0,
     prefill |-> NoBuffer, src_nodata |-> None, dst_nodata |-> None,
     reprojected |-> {}, gc_after_write |-> FALSE, memory_sampled |-> FALSE,
     gc_after_band |-> FALSE,
     failed |-> FALSE, error |-> NoMsg, raised |-> FALSE, written |-> NoBuffer]

\* process_with_fixed_chunks called on an open source and a freshly opened
\* destination.
EngineInit ==
    /\ entry = "process_with_fixed_chunks"
    /\ pc = "fixed_chunks"
    /\ exc = NoExc
    /\ src \in [name : SourceNames, count : BandCounts,
                nodata : {None}, dtype : Dtypes]
    /\ width \in Dims \cup {LargeRaster.width}
    /\ height \in Dims \cup {LargeRaster.height}
    /\ chunk_config \in
            {g @@ m @@ c : g \in GcOptions, m \in MonitoringOptions,
                          c \in [default_chunk_size : ChunkSizes,
                                 memory_limit_mb : {DefaultMemoryLimitMb},
                                 use_streaming : {TRUE}]}
    /\ src_nodata \in SrcNodataValues
    /\ dst_nodata \in DstNodataValues
    \* the garbage collection keys vary on the smallest raster of an integer
    \* band without sentinels
    /\ ("aggressive_gc" \in DOMAIN chunk_config
           \/ "enable_memory_monitoring" \in DOMAIN chunk_config) =>
        /\ width = 256 /\ height = 256
        /\ src.dtype = "uint8" /\ src_nodata = None /\ dst_nodata = None
    \* the large raster is processed with one band and one chunk size
    /\ (width = LargeRaster.width) <=> (height = LargeRaster.height)
    /\ width = LargeRaster.width =>
        /\ chunk_config.default_chunk_size = LargeRaster.chunk_size
        /\ src.count = 1
        /\ src.name = StreamingPath
    \* the pixel-value inputs vary on the smallest raster, the geometry
    \* varies under one setting of the pixel-value inputs
    /\ \/ width = 256 /\ height = 256
       \/ src.dtype = "float32" /\ src_nodata = "ndS" /\ dst_nodata = None
    /\ band_idx = 0
    /\ chunk_x = 0
    /\ chunk_y = 0
    /\ sub_x = 0
    /\ sub_y = 0
    /\ chunk_iterator = 0
    /\ current_memory = 0
    /\ dst_written = {}
    /\ dst_rewritten = FALSE
    /\ last_op = NoOp
    /\ impl = "none"
    /\ HAS_GDAL_PROCESSOR = FALSE
    /\ HAS_RIO_COGEO = FALSE
    /\ file_size_gb = 0
    /\ s3_exists = FALSE
    /\ overwrite = FALSE
    /\ manual_nodata = None
    /\ input_path = NoMsg
    /\ temp_files = {}
    /\ stack = <<>>
    /\ files = {}
    /\ opened = {}
    /\ dst_opened = {}
    /\ uploads = {}
    /\ call = NoCall
    /\ outcome = <<>>
    /\ IdleHelpers
    /\ callers_config = chunk_config
    /\ config_is_callers = (chunk_config # NoConfig)

EngineSpec == EngineInit /\ [][EngineNext]_vars


\* ------------------------------------------------------------ convert_to_cog
\* file-size thresholds of lib/main_processor.py, in tenths of a GB
GdalSizeLimit == 100
RioCogeoSizeLimit == 50
WholeFileSizeLimit == 15

\* dict.get(key, default)
dict_get(d, key, default) == IF key \in DOMAIN d THEN d[key] ELSE default

\* chunk_config.get('use_streaming', True)
use_streaming(cfg) == dict_get(cfg, "use_streaming", TRUE)

\* chunk_config.get('use_whole_file_processing', False)
use_whole_file(cfg) == dict_get(cfg, "use_whole_file_processing", FALSE)

\* get_fixed_chunk_config(chunk_size, memory_limit_mb), the keys that
\* convert_to_cog and the engine read
get_fixed_chunk_config(chunk_size, limit_mb) ==
    [default_chunk_size |-> chunk_size, memory_limit_mb |-> limit_mb,
     use_streaming |-> FALSE, enable_memory_monitoring |-> TRUE,
     aggressive_gc |-> TRUE]

\* get_chunk_config(file_size_gb), the size in tenths of a GB
get_chunk_config(size) ==
    IF size > 70 THEN get_fixed_chunk_config(256, 150)
    ELSE IF size > 30 THEN get_fixed_chunk_config(256, 250)
    ELSE IF size > 15 THEN get_fixed_chunk_config(512, 300)
    ELSE [use_whole_file_processing |-> TRUE, default_chunk_size |-> 256,
          memory_limit_mb |-> DefaultMemoryLimitMb, use_streaming |-> FALSE,
          enable_memory_monitoring |-> FALSE, aggressive_gc |-> FALSE]

\* the same dict under another name
alias(is_callers) == is_callers

\* dict.copy(): a new dict, which is not the one the caller holds
copy(is_callers) == FALSE

\* the copy handed to the retry with its use_streaming as it was
download_config_as_is(cfg) == cfg

\* new_config = chunk_config.copy(); new_config['use_streaming'] = False
download_config(cfg) == ("use_streaming" :> FALSE) @@ cfg

\* set_nodata_value_src: the manual value when it is valid for the data type
\* (the manual values here are), else the default of the data type
set_nodata_value_src(s, manual) ==
    IF manual # None THEN manual
    ELSE IF s.dtype = "uint8" THEN "0" ELSE "-9999"

\* "Get or set nodata value": manual, else the source's, else the default
resolve_nodata(s, manual) ==
    IF manual # None THEN manual
    ELSE IF s.nodata # None THEN s.nodata
    ELSE set_nodata_value_src(s, manual)

\* the number of the running attempt: 1 for the call from outside
Attempt == Len(stack) + 1

\* raise inside the try block of convert_to_cog
Raise(type, msg) ==
    /\ exc' = [type |-> type, msg |-> msg]
    /\ pc' = "except"

\* the retry test without the test of the configuration
RetryIgnoringConfig(e) ==
    LET error_msg == Lower(e.msg)
    IN  \/ Contains(error_msg, StrStreamingChunkError)
        \/ Contains(error_msg, StrChunkAndWarp)

\* ("streaming_chunk_error" in error_msg or "chunk and warp" in error_msg)
\* and chunk_config.get('use_streaming', True), error_msg = str(e).lower()
ShouldRetry(e) ==
    LET error_msg == Lower(e.msg)
    IN  /\ \/ Contains(error_msg, StrStreamingChunkError)
           \/ Contains(error_msg, StrChunkAndWarp)
        /\ use_streaming(chunk_config)

\* Step 1: the destination key exists and overwrite is off: FileExistsError.
\* check_s3_file_exists lets a ClientError other than 404 through.
\* Step 2: a configuration chosen by the file size if none was given.
CheckExists ==
    /\ pc = "check_exists"
    /\ \E head_ok \in BOOLEAN :
        IF ~head_ok
        THEN Raise("ClientError", MsgClientError) /\ UNCHANGED chunk_config
        ELSE IF s3_exists /\ ~overwrite
        THEN Raise("FileExistsError", MsgFileExists) /\ UNCHANGED chunk_config
        ELSE /\ pc' = "select_input"
             /\ chunk_config' = IF chunk_config = NoConfig
                                THEN get_chunk_config(file_size_gb)
                                ELSE chunk_config
             /\ UNCHANGED exc
    /\ config_is_callers' = (config_is_callers /\ chunk_config' = chunk_config)
    /\ UNCHANGED <<entry, engine_vars, caller_vars, callers_config>>
    /\ UNCHANGED pure_vars

\* Step 5: the streaming path if configured and it opens, else the cached or
\* downloaded local file.
SelectInputPath ==
    /\ pc = "select_input"
    /\ \E creds_ok \in BOOLEAN, stream_opens \in BOOLEAN, download_ok \in BOOLEAN :
        LET try_stream == use_streaming(chunk_config) /\ creds_ok
            next_pc == IF impl = "main_processor" THEN "process" ELSE "optimize_gdal"
        IN  /\ opened' = IF try_stream
                         THEN opened \cup {[attempt |-> Attempt, path |-> StreamingPath]}
                         ELSE opened
            /\ IF try_stream /\ stream_opens
               THEN /\ input_path' = StreamingPath
                    /\ pc' = next_pc
                    /\ UNCHANGED <<exc, files, temp_files>>
               ELSE IF "download" \in files
               THEN /\ input_path' = LocalDownloadPath
                    /\ pc' = next_pc
                    /\ UNCHANGED <<exc, files, temp_files>>
               ELSE IF download_ok
               THEN /\ input_path' = LocalDownloadPath
                    /\ files' = files \cup {"download"}
                    /\ temp_files' = temp_files \cup {"download"}
                    /\ pc' = next_pc
                    /\ UNCHANGED exc
               ELSE /\ Raise("Exception", MsgDownloadFailed)
                    /\ UNCHANGED <<input_path, files, temp_files>>
    /\ UNCHANGED <<entry, chunk_config, engine_vars, impl, HAS_GDAL_PROCESSOR,
                   HAS_RIO_COGEO, file_size_gb, s3_exists, overwrite,
                   manual_nodata, stack, dst_opened, uploads>>
    /\ UNCHANGED <<pure_vars, object_vars>>

\* rasterio.open(input_path) and rasterio.open(reproject_filename, 'w'): the
\* source handle, the resolved no-data value, an empty destination file.
OpenDatasets(engine_src_nodata, engine_dst_nodata, next_pc) ==
    /\ src' = [src EXCEPT !.name = input_path]
    /\ opened' = opened \cup {[attempt |-> Attempt, path |-> input_path]}
    /\ src_nodata' = engine_src_nodata
    /\ dst_nodata' = engine_dst_nodata
    /\ files' = files \cup {"reproj"}
    /\ dst_opened' = dst_opened \cup {Attempt}
    /\ dst_written' = {}
    /\ dst_rewritten' = FALSE
    /\ band_idx' = 0
    /\ chunk_x' = 0
    /\ chunk_y' = 0
    /\ sub_x' = 0
    /\ sub_y' = 0
    /\ chunk_iterator' = 0
    /\ last_op' = NoOp
    /\ pc' = next_pc
    /\ UNCHANGED <<exc, width, height, current_memory>>

\* the source cannot be opened
OpenFails ==
    /\ Raise("RasterioIOError", MsgOpenFailed)
    /\ opened' = opened \cup {[attempt |-> Attempt, path |-> input_path]}
    /\ UNCHANGED <<engine_vars, files, dst_opened>>

\* main_processor.py, step 6 up to the call of process_with_fixed_chunks
\* (core/reprojection.py, which has no dst_nodata parameter).
MainOpenAndProcess ==
    /\ pc = "process"
    /\ impl = "main_processor"
    /\ \E open_ok \in BOOLEAN :
        IF open_ok
        THEN OpenDatasets(resolve_nodata(src, manual_nodata), None, "fixed_chunks")
        ELSE OpenFails
    /\ UNCHANGED <<entry, chunk_config, impl, HAS_GDAL_PROCESSOR, HAS_RIO_COGEO,
                   file_size_gb, s3_exists, overwrite, manual_nodata, input_path,
                   temp_files, stack, uploads>>
    /\ UNCHANGED <<pure_vars, object_vars>>

\* The frame of the reprojection function is gone once the caller runs
\* again: its loop variables and buffers no longer exist.
LeaveReprojection ==
    /\ band_idx' = 0
    /\ chunk_x' = 0
    /\ chunk_y' = 0
    /\ sub_x' = 0
    /\ sub_y' = 0
    /\ chunk_iterator' = 0
    /\ current_memory' = 0
    /\ last_op' = NoOp
    /\ UNCHANGED <<src, width, height, src_nodata, dst_nodata, dst_written,
                   dst_rewritten>>

\* upload_to_s3 of the attempt's output, else "Failed to upload COG to S3";
\* after the upload the function body is done.
Upload(upload_ok) ==
    IF upload_ok
    THEN /\ uploads' = uploads \cup {Attempt}
         /\ pc' = "finally"
         /\ UNCHANGED exc
    ELSE /\ Raise("Exception", MsgUploadFailed)
         /\ UNCHANGED uploads

\* main_processor.py, steps 7-10: the COG is built from the reprojected file
\* and uploaded.
MainCogify ==
    /\ pc = "cogify"
    /\ impl = "main_processor"
    /\ temp_files' = temp_files \cup {"reproj", "temp_cog"}
    /\ \E create_ok \in BOOLEAN, upload_ok \in BOOLEAN :
        IF create_ok
        THEN /\ files' = files \cup {"temp_cog"}
             /\ Upload(upload_ok)
        ELSE /\ Raise("Exception", MsgCreateFailed)
             /\ UNCHANGED <<files, uploads>>
    /\ LeaveReprojection
    /\ UNCHANGED <<entry, chunk_config, impl, HAS_GDAL_PROCESSOR,
                   HAS_RIO_COGEO, file_size_gb, s3_exists, overwrite,
                   manual_nodata, input_path, stack, opened, dst_opened>>
    /\ UNCHANGED <<pure_vars, object_vars>>

\* lib/main_processor.py, step 6, first choice: the GDAL COG driver.
LibOptimizedGdal ==
    /\ pc = "optimize_gdal"
    /\ impl = "lib.main_processor"
    /\ IF HAS_GDAL_PROCESSOR /\ file_size_gb < GdalSizeLimit
       THEN /\ temp_files' = temp_files \cup {"cog_output"}
            /\ opened' = opened \cup {[attempt |-> Attempt, path |-> input_path]}
            /\ \E open_ok \in BOOLEAN, success \in BOOLEAN, upload_ok \in BOOLEAN :
                IF ~open_ok
                THEN /\ Raise("RasterioIOError", MsgOpenFailed)
                     /\ UNCHANGED <<files, uploads>>
                ELSE IF ~success
                THEN /\ pc' = "optimize_rio"
                     /\ UNCHANGED <<exc, files, uploads>>
                ELSE /\ Upload(upload_ok)
                     \* cleanup_temp_files(*temp_files) before the early return
                     /\ files' = IF upload_ok THEN files \ temp_files'
                                 ELSE files \cup {"cog_output"}
       ELSE /\ pc' = "optimize_rio"
            /\ UNCHANGED <<exc, temp_files, opened, files, uploads>>
    /\ UNCHANGED <<entry, chunk_config, engine_vars, impl, HAS_GDAL_PROCESSOR,
                   HAS_RIO_COGEO, file_size_gb, s3_exists, overwrite,
                   manual_nodata, input_path, stack, dst_opened>>
    /\ UNCHANGED <<pure_vars, object_vars>>

\* lib/main_processor.py, step 6, second choice: rio-cogeo, through a
\* remapped temporary file when the manual no-data value differs from the
\* source's.
LibOptimizedRioCogeo ==
    /\ pc = "optimize_rio"
    /\ impl = "lib.main_processor"
    /\ IF HAS_RIO_COGEO /\ file_size_gb < RioCogeoSizeLimit
       THEN LET needs_remapping == /\ manual_nodata # None
                                   /\ src.nodata # None
                                   /\ src.nodata # manual_nodata
                remapped == IF needs_remapping THEN {"temp_remapped"} ELSE {}
            IN  /\ opened' = opened \cup {[attempt |-> Attempt, path |-> input_path]}
                /\ \E open_ok \in BOOLEAN, upload_ok \in BOOLEAN,
                      failure \in {NoMsg} \cup ReprojectErrors :
                    IF ~open_ok
                    THEN /\ Raise("RasterioIOError", MsgOpenFailed)
                         /\ temp_files' = temp_files \cup {"cog_output"}
                         /\ UNCHANGED <<files, uploads>>
                    ELSE IF failure # NoMsg
                    THEN /\ Raise("Exception", failure)
                         /\ temp_files' = temp_files \cup {"cog_output"} \cup remapped
                         /\ files' = files \cup remapped
                         /\ UNCHANGED uploads
                    ELSE /\ temp_files' = temp_files \cup {"cog_output"} \cup remapped
                         /\ Upload(upload_ok)
                         /\ files' = IF upload_ok THEN files \ temp_files'
                                     ELSE files \cup {"cog_output"} \cup remapped
       ELSE /\ pc' = "fallback"
            /\ UNCHANGED <<exc, temp_files, opened, files, uploads>>
    /\ UNCHANGED <<entry, chunk_config, engine_vars, impl, HAS_GDAL_PROCESSOR,
                   HAS_RIO_COGEO, file_size_gb, s3_exists, overwrite,
                   manual_nodata, input_path, stack, dst_opened>>
    /\ UNCHANGED <<pure_vars, object_vars>>

\* the whole-file path for every file whose configuration has the flag
SelectsWholeFileByFlag == use_whole_file(chunk_config)

\* use_whole_file and file_size_gb < 1.5
SelectsWholeFile ==
    use_whole_file(chunk_config) /\ file_size_gb < WholeFileSizeLimit

\* lib/main_processor.py, step 7 up to the call of process_whole_file or of
\* process_with_fixed_chunks: src_nodata is the source's own value,
\* dst_nodata the resolved one.
LibFallbackOpen ==
    /\ pc = "fallback"
    /\ impl = "lib.main_processor"
    /\ \E open_ok \in BOOLEAN :
        IF open_ok
        THEN OpenDatasets(src.nodata, resolve_nodata(src, manual_nodata),
                          IF SelectsWholeFile THEN "whole_file" ELSE "fixed_chunks")
        ELSE OpenFails
    /\ UNCHANGED <<entry, chunk_config, impl, HAS_GDAL_PROCESSOR, HAS_RIO_COGEO,
                   file_size_gb, s3_exists, overwrite, manual_nodata, input_path,
                   temp_files, stack, uploads>>
    /\ UNCHANGED <<pure_vars, object_vars>>

\* np.nan_to_num(dst_array, nan=dst_nodata): NaN becomes the given value,
\* the infinities become the largest and the smallest finite value
nan_to_num(data, nan) ==
    [data EXCEPT !.vals = {IF v = "NaN" THEN nan
                           ELSE IF v = "Inf" THEN "max"
                           ELSE IF v = "-Inf" THEN "min"
                           ELSE v : v \in @}]

\* np.nan_to_num copies its nan argument into the array with np.copyto, which
\* refuses None for an array of a numeric type
nan_to_num_raises(data, nan) == nan = None

\* a band whose failure is passed over: the loop goes on to the next band
BandFailureSkipped(b, seen, type, msg) ==
    /\ last_op' = seen
    /\ pc' = IF b < src.count THEN "whole_file" ELSE ReturnPc
    /\ UNCHANGED <<exc, dst_written, dst_rewritten>>

\* except Exception as e: print(...); raise
BandFailure(b, seen, type, msg) ==
    /\ last_op' = seen
    /\ exc' = [type |-> type, msg |-> msg]
    /\ pc' = RaisePc
    /\ UNCHANGED <<dst_written, dst_rewritten>>

\* process_whole_file, lines 44-83: one band reprojected into an array of
\* the whole band, NaN replaced if there is any, and the array written; an
\* exception of any of the three is printed and raised again.
ProcessWholeBand ==
    /\ pc = "whole_file"
    /\ LET b == band_idx + 1
           nd == IF dst_nodata = None THEN src_nodata ELSE dst_nodata
           window == Window(0, 0, width, height)
           dst_array == np_full(<<height, width>>, FillValue(nd))
       IN  /\ dst_nodata' = nd
           /\ band_idx' = b
           /\ \E out \in ReprojectOutcomes, write_ok \in BOOLEAN :
               LET reprojected == [dst_array EXCEPT !.vals = out.vals]
                   has_nan == "NaN" \in reprojected.vals
                   fixed == IF has_nan THEN nan_to_num(reprojected, nd) ELSE reprojected
                   seen(failed, msg, written) ==
                       [Observation("whole", window, 0, dst_array, out, failed, written)
                        EXCEPT !.band = b, !.dst_nodata = nd, !.failed = failed, !.error = msg]
               IN  IF ~out.ok
                   THEN BandFailure(b, seen(TRUE, out.msg, NoBuffer),
                                    "WarpOperationError", out.msg)
                   ELSE IF has_nan /\ nan_to_num_raises(reprojected, nd)
                   THEN BandFailure(b, seen(TRUE, MsgCannotCast, NoBuffer),
                                    "TypeError", MsgCannotCast)
                   ELSE IF ~write_ok
                   THEN BandFailure(b, seen(TRUE, MsgWriteFailed, NoBuffer),
                                    "RasterioIOError", MsgWriteFailed)
                   ELSE /\ last_op' = seen(FALSE, NoMsg, fixed)
                        /\ dst_written' = dst_written \cup {Rect(b, window)}
                        /\ dst_rewritten' = (dst_rewritten \/ WriteRewrites(b, window))
                        /\ pc' = IF b < src.count THEN "whole_file" ELSE ReturnPc
                        /\ UNCHANGED exc
    /\ UNCHANGED <<caller_vars, entry, chunk_config, src, width, height, src_nodata,
                   chunk_x, chunk_y, sub_x, sub_y, chunk_iterator, current_memory>>
    /\ UNCHANGED <<pure_vars, object_vars>>

\* lib/main_processor.py after the reprojection: the reprojected file is
\* uploaded if it validates as a COG, else a COG is built from it first.
LibPostProcess ==
    /\ pc = "cogify"
    /\ impl = "lib.main_processor"
    /\ \E is_valid_cog \in BOOLEAN, create_ok \in BOOLEAN, upload_ok \in BOOLEAN :
        IF is_valid_cog
        THEN /\ temp_files' = temp_files \cup {"reproj"}
             /\ Upload(upload_ok)
             /\ UNCHANGED files
        ELSE /\ temp_files' = temp_files \cup {"reproj", "temp_cog"}
             /\ IF create_ok
                THEN /\ files' = files \cup {"temp_cog"}
                     /\ Upload(upload_ok)
                ELSE /\ Raise("Exception", MsgCreateFailed)
                     /\ UNCHANGED <<files, uploads>>
    /\ LeaveReprojection
    /\ UNCHANGED <<entry, chunk_config, impl, HAS_GDAL_PROCESSOR,
                   HAS_RIO_COGEO, file_size_gb, s3_exists, overwrite,
                   manual_nodata, input_path, stack, opened, dst_opened>>
    /\ UNCHANGED <<pure_vars, object_vars>>

\* the frame of a call suspended in its except block
Frame ==
    [chunk_config |-> chunk_config, overwrite |-> overwrite,
     manual_nodata |-> manual_nodata, temp_files |-> temp_files,
     input_path |-> input_path, e |-> exc, config_is_callers |-> config_is_callers]

\* except Exception as e: the retry in download mode, a nested call with
\* (name, bucket, cog_filename, cog_data_bucket, cog_data_prefix, s3_client,
\* cog_profile, local_output_dir, new_config) and every other parameter at
\* its default, or the exception raised again.
HandleException ==
    /\ pc = "except"
    /\ IF ShouldRetry(exc)
       THEN /\ stack' = Append(stack, Frame)
            /\ chunk_config' = download_config(chunk_config)
            /\ config_is_callers' = copy(config_is_callers)
            /\ callers_config' = IF config_is_callers'
                                 THEN chunk_config' ELSE callers_config
            /\ overwrite' = FALSE
            /\ manual_nodata' = None
            /\ temp_files' = {}
            /\ input_path' = NoMsg
            /\ exc' = NoExc
            /\ pc' = "check_exists"
       ELSE /\ pc' = "finally"
            /\ UNCHANGED <<exc, chunk_config, overwrite, manual_nodata,
                           temp_files, input_path, stack, object_vars>>
    /\ LeaveReprojection
    /\ UNCHANGED <<entry, impl, HAS_GDAL_PROCESSOR, HAS_RIO_COGEO,
                   file_size_gb, s3_exists, files, opened, dst_opened, uploads>>
    /\ UNCHANGED pure_vars

\* finally: cleanup_temp_files(*temp_files); then the call is left, to the
\* outside or into the except block of the call that retried, whose own
\* finally runs next.
Finally ==
    /\ pc = "finally"
    /\ files' = files \ temp_files
    /\ IF stack = <<>>
       THEN /\ pc' = IF exc = NoExc THEN "returned" ELSE "raised"
            /\ UNCHANGED <<chunk_config, overwrite, manual_nodata, temp_files,
                           input_path, stack, config_is_callers>>
       ELSE LET caller == stack[Len(stack)]
            IN  /\ stack' = SubSeq(stack, 1, Len(stack) - 1)
                /\ chunk_config' = caller.chunk_config
                /\ config_is_callers' = caller.config_is_callers
                /\ overwrite' = caller.overwrite
                /\ manual_nodata' = caller.manual_nodata
                /\ temp_files' = caller.temp_files
                /\ input_path' = caller.input_path
                /\ pc' = "finally"
    /\ UNCHANGED <<entry, exc, engine_vars, impl, HAS_GDAL_PROCESSOR,
                   HAS_RIO_COGEO, file_size_gb, s3_exists, opened, dst_opened,
                   uploads, callers_config>>
    /\ UNCHANGED pure_vars

\* file sizes on each side of every threshold, in tenths of a GB
FileSizes ==
    {WholeFileSizeLimit - 5, WholeFileSizeLimit, RioCogeoSizeLimit - 20, GdalSizeLimit + 20}

\* chunk configurations: with and without the optional keys
StreamingOptions == {<<>>, "use_streaming" :> TRUE, "use_streaming" :> FALSE}
WholeFileOptions == {<<>>, "use_whole_file_processing" :> TRUE}
ChunkConfigs ==
    {s @@ w @@ [default_chunk_size |-> 2 * SubChunkSize,
                memory_limit_mb |-> DefaultMemoryLimitMb] :
        s \in StreamingOptions, w \in WholeFileOptions}

\* convert_to_cog of either module called from outside.
Init ==
    /\ entry = "convert_to_cog"
    /\ pc = "check_exists"
    /\ exc = NoExc
    /\ impl \in {"main_processor", "lib.main_processor"}
    /\ HAS_GDAL_PROCESSOR \in BOOLEAN
    /\ HAS_RIO_COGEO \in BOOLEAN
    /\ file_size_gb \in FileSizes
    /\ chunk_config \in ChunkConfigs \cup {NoConfig}
    /\ impl = "main_processor" =>
        /\ ~HAS_GDAL_PROCESSOR
        /\ ~HAS_RIO_COGEO
        /\ file_size_gb = GdalSizeLimit + 20
        /\ "use_whole_file_processing" \notin DOMAIN chunk_config
    /\ s3_exists \in BOOLEAN
    /\ overwrite \in BOOLEAN
    /\ manual_nodata \in {None, "ndM"}
    /\ src \in [name : {NoMsg}, count : {MaxBands}, nodata : SrcNodataValues,
                dtype : Dtypes]
    /\ files \in {{}, {"download"}}
    \* overwrite matters when the key exists; floating-point bands on the
    \* whole-file configurations; the key, the no-data values, the cache, the
    \* missing configuration and the size at the threshold vary one at a time
    /\ overwrite => s3_exists
    /\ src.dtype = "float32" =>
        use_whole_file(chunk_config) /\ file_size_gb < WholeFileSizeLimit
    /\ Cardinality({v \in {"key", "nodata", "cache", "config", "size"} :
            \/ v = "config" /\ chunk_config = NoConfig
            \/ v = "size" /\ file_size_gb = WholeFileSizeLimit /\ chunk_config # NoConfig
            \/ v = "key" /\ s3_exists
            \/ v = "nodata" /\ (manual_nodata # None \/ src.nodata = None)
            \/ v = "cache" /\ files # {}}) <= 1
    /\ width = 112 + 144 * MaxDimUnits
    /\ height = 2 * SubChunkSize
    /\ src_nodata = None
    /\ dst_nodata = None
    /\ band_idx = 0
    /\ chunk_x = 0
    /\ chunk_y = 0
    /\ sub_x = 0
    /\ sub_y = 0
    /\ chunk_iterator = 0
    /\ current_memory = 0
    /\ dst_written = {}
    /\ dst_rewritten = FALSE
    /\ last_op = NoOp
    /\ input_path = NoMsg
    /\ temp_files = {}
    /\ stack = <<>>
    /\ opened = {}
    /\ dst_opened = {}
    /\ uploads = {}
    /\ call = NoCall
    /\ outcome = <<>>
    /\ IdleHelpers
    /\ callers_config = chunk_config
    /\ config_is_callers = (chunk_config # NoConfig)

Next ==
    \/ CheckExists
    \/ SelectInputPath
    \/ MainOpenAndProcess
    \/ LibOptimizedGdal
    \/ LibOptimizedRioCogeo
    \/ LibFallbackOpen
    \/ BeginFixedChunks
    \/ ProcessDirectChunk
    \/ EnterSubChunks
    \/ ProcessSubChunk
    \/ ProcessWholeBand
    \/ MainCogify
    \/ LibPostProcess
    \/ HandleException
    \/ Finally

Spec == Init /\ [][Next]_vars


\* ------------------------------------------- functions called on their own
\* No call of convert_to_cog or of the chunk engine is in progress.
IdleProgram ==
    /\ exc = NoExc
    /\ chunk_config = [default_chunk_size |-> 2 * SubChunkSize,
                       memory_limit_mb |-> DefaultMemoryLimitMb]
    /\ src = [name |-> NoMsg, count |-> 1, nodata |-> None, dtype |-> "float32"]
    /\ width = 0
    /\ height = 0
    /\ src_nodata = None
    /\ dst_nodata = None
    /\ band_idx = 0
    /\ chunk_x = 0
    /\ chunk_y = 0
    /\ sub_x = 0
    /\ sub_y = 0
    /\ chunk_iterator = 0
    /\ current_memory = 0
    /\ dst_written = {}
    /\ dst_rewritten = FALSE
    /\ last_op = NoOp
    /\ impl = "none"
    /\ HAS_GDAL_PROCESSOR = FALSE
    /\ HAS_RIO_COGEO = FALSE
    /\ file_size_gb = 0
    /\ s3_exists = FALSE
    /\ overwrite = FALSE
    /\ manual_nodata = None
    /\ input_path = NoMsg
    /\ temp_files = {}
    /\ stack = <<>>
    /\ files = {}
    /\ opened = {}
    /\ dst_opened = {}
    /\ uploads = {}
    /\ callers_config = chunk_config
    /\ config_is_callers = TRUE

program_vars == <<exc, chunk_config, engine_vars, caller_vars, object_vars,
                  band_vars, batch_vars>>

\* buffers of six elements holding any of: a source value, the no-data
\* value, NaN, +Infinity, -Infinity
FixBuffers ==
    [shape : {<<2, 3>>},
     vals : (SUBSET {"v", "ndD", "NaN", "Inf", "-Inf"}) \ {{}}]

\* no-data values: none, a finite number, NaN, +Infinity
FixNodataValues == {None, "ndD", "NaN", "Inf"}

\* check_and_fix_nan_values(data, nodata_value, dtype): (fixed_data, had_nan)
\* or a TypeError
check_and_fix_call(data, nodata_value, dtype) ==
    IF check_and_fix_raises(data, nodata_value, dtype)
    THEN [raised |-> TRUE, data |-> NoBuffer, had_nan |-> FALSE]
    ELSE [raised |-> FALSE,
          data |-> check_and_fix_nan_values(data, nodata_value, dtype),
          had_nan |-> /\ IsFloating(dtype)
                      /\ (data.vals \cap {"NaN", "Inf", "-Inf"}) # {}]

FixInit ==
    /\ entry = "check_and_fix_nan_values"
    /\ pc = "call"
    /\ call \in [fn : {"check_and_fix_nan_values"}, data : FixBuffers,
                 nodata_value : FixNodataValues, dtype : Dtypes]
    /\ outcome = <<>>
    /\ IdleHelpers
    /\ IdleProgram

\* data, had_nan = check_and_fix_nan_values(data, nodata_value, dtype)
FixOnce ==
    /\ entry = "check_and_fix_nan_values"
    /\ pc = "call"
    /\ LET r == check_and_fix_call(call.data, call.nodata_value, call.dtype)
       IN  /\ outcome' = <<r>>
           /\ pc' = IF r.raised THEN "raised" ELSE "fixed"
    /\ UNCHANGED <<entry, call, program_vars>>

\* the same call on the data the first call returned
FixAgain ==
    /\ entry = "check_and_fix_nan_values"
    /\ pc = "fixed"
    /\ LET r == check_and_fix_call(outcome[1].data, call.nodata_value, call.dtype)
       IN  /\ outcome' = Append(outcome, r)
           /\ pc' = IF r.raised THEN "raised" ELSE "returned"
    /\ UNCHANGED <<entry, call, program_vars>>

FixNext ==
    \/ FixOnce
    \/ FixAgain

FixSpec == FixInit /\ [][FixNext]_vars

\* process_whole_file called on an open source and a freshly opened
\* destination.
WholeFileInit ==
    /\ entry = "process_whole_file"
    /\ pc = "whole_file"
    /\ exc = NoExc
    /\ src \in [name : SourceNames, count : BandCounts,
                nodata : {None}, dtype : Dtypes]
    /\ width \in Dims
    /\ height \in Dims
    /\ chunk_config = <<>>
    /\ src_nodata \in SrcNodataValues
    /\ dst_nodata \in DstNodataValues
    /\ band_idx = 0
    /\ chunk_x = 0
    /\ chunk_y = 0
    /\ sub_x = 0
    /\ sub_y = 0
    /\ chunk_iterator = 0
    /\ current_memory = 0
    /\ dst_written = {}
    /\ dst_rewritten = FALSE
    /\ last_op = NoOp
    /\ impl = "none"
    /\ HAS_GDAL_PROCESSOR = FALSE
    /\ HAS_RIO_COGEO = FALSE
    /\ file_size_gb = 0
    /\ s3_exists = FALSE
    /\ overwrite = FALSE
    /\ manual_nodata = None
    /\ input_path = NoMsg
    /\ temp_files = {}
    /\ stack = <<>>
    /\ files = {}
    /\ opened = {}
    /\ dst_opened = {}
    /\ uploads = {}
    /\ call = NoCall
    /\ outcome = <<>>
    /\ IdleHelpers
    /\ callers_config = NoConfig
    /\ config_is_callers = FALSE

WholeFileNext == ProcessWholeBand

WholeFileSpec == WholeFileInit /\ [][WholeFileNext]_vars

\* get_adaptive_chunk_config(), the keys that are read
get_adaptive_chunk_config ==
    [default_chunk_size |-> 1024, memory_limit_mb |-> DefaultMemoryLimitMb,
     use_streaming |-> TRUE, enable_memory_monitoring |-> TRUE,
     aggressive_gc |-> FALSE]

\* get_memory_safe_config(), the keys that are read
get_memory_safe_config ==
    [default_chunk_size |-> 128, memory_limit_mb |-> 100,
     use_streaming |-> FALSE, enable_memory_monitoring |-> TRUE,
     aggressive_gc |-> TRUE]

\* chunk_config.get('default_chunk_size', 512)
default_chunk_size(cfg) == dict_get(cfg, "default_chunk_size", 512)

\* min(4096, int(x ** 0.5)) for a number x whose integer part is n
ClampedRoot(n) ==
    CHOOSE k \in 0..4096 : k * k <= n /\ (k = 4096 \/ (k + 1) * (k + 1) > n)

Max(a, b) == IF a > b THEN a ELSE b

\* the chunk size before it is rounded
calculate_optimal_chunk_size_unrounded(w, h, bands, dtype_size, target_memory_mb) ==
    LET bytes_per_pixel == bands * dtype_size
        target_bytes == target_memory_mb * 1024 * 1024
    IN  Max(128, ClampedRoot(target_bytes \div bytes_per_pixel))

\* calculate_optimal_chunk_size(width, height, bands, dtype_size,
\* target_memory_mb)
calculate_optimal_chunk_size(w, h, bands, dtype_size, target_memory_mb) ==
    LET bytes_per_pixel == bands * dtype_size
        target_bytes == target_memory_mb * 1024 * 1024
        pixels_in_chunk == target_bytes \div bytes_per_pixel
        chunk_size == Max(128, ClampedRoot(pixels_in_chunk))
    IN  (chunk_size \div 128) * 128

\* the calls that give the engine its chunk size: the configuration chosen
\* for a file size, the two other ready-made configurations, a configuration
\* without the key, and the size computed from a memory target
ChunkSizeCalls ==
    [fn : {"get_chunk_config"}, file_size_gb : 0..(GdalSizeLimit + 20)]
        \cup [fn : {"get_adaptive_chunk_config", "get_memory_safe_config"}]
        \cup [fn : {"default_chunk_size"},
              chunk_config : {<<>>, [use_streaming |-> FALSE]}]
        \cup [fn : {"calculate_optimal_chunk_size"},
              bands : (1..MaxBands) \cup {8 * MaxBands},
              dtype_size : {1, 2, 4, 8},
              target_memory_mb : {1, 2, 5, 100, DefaultMemoryLimitMb}]

ChunkSizeInit ==
    /\ entry = "chunk_size"
    /\ pc = "call"
    /\ call \in ChunkSizeCalls
    /\ outcome = <<>>
    /\ IdleHelpers
    /\ IdleProgram

\* the chunk size that the call gives
ChunkSizeOf(c) ==
    IF c.fn = "get_chunk_config"
    THEN default_chunk_size(get_chunk_config(c.file_size_gb))
    ELSE IF c.fn = "get_adaptive_chunk_config"
    THEN default_chunk_size(get_adaptive_chunk_config)
    ELSE IF c.fn = "get_memory_safe_config"
    THEN default_chunk_size(get_memory_safe_config)
    ELSE IF c.fn = "default_chunk_size"
    THEN default_chunk_size(c.chunk_config)
    ELSE calculate_optimal_chunk_size(width, height, c.bands, c.dtype_size,
                                      c.target_memory_mb)

ChunkSizeCall ==
    /\ entry = "chunk_size"
    /\ pc = "call"
    /\ outcome' = <<ChunkSizeOf(call)>>
    /\ pc' = "returned"
    /\ UNCHANGED <<entry, call, program_vars>>

ChunkSizeNext == ChunkSizeCall

ChunkSizeSpec == ChunkSizeInit /\ [][ChunkSizeNext]_vars

\* "STREAMING_CHUNK_ERROR", the text retry_with_download looks for in str(e)
StrSTREAMING_CHUNK_ERROR ==
    <<"S", "T", "R", "E", "A", "M", "I", "N", "G", "_", "C", "H", "U", "N",
      "K", "_", "E", "R", "R", "O", "R">>

\* retry_with_download(process_with_fixed_chunks, src, dst, ...,
\* chunk_config=chunk_config): the first call of func(*args, **kwargs)
RetryInit ==
    /\ entry = "retry_with_download"
    /\ pc = "fixed_chunks"
    /\ exc = NoExc
    /\ src \in [name : SourceNames, count : BandCounts,
                nodata : {None}, dtype : Dtypes]
    /\ width = 2 * SubChunkSize
    /\ height = 2 * SubChunkSize
    /\ chunk_config \in [default_chunk_size : {2 * SubChunkSize},
                         memory_limit_mb : {DefaultMemoryLimitMb},
                         use_streaming : BOOLEAN]
    /\ src_nodata \in SrcNodataValues
    /\ dst_nodata = None
    /\ band_idx = 0
    /\ chunk_x = 0
    /\ chunk_y = 0
    /\ sub_x = 0
    /\ sub_y = 0
    /\ chunk_iterator = 0
    /\ current_memory = 0
    /\ dst_written = {}
    /\ dst_rewritten = FALSE
    /\ last_op = NoOp
    /\ impl = "none"
    /\ HAS_GDAL_PROCESSOR = FALSE
    /\ HAS_RIO_COGEO = FALSE
    /\ file_size_gb = 0
    /\ s3_exists = FALSE
    /\ overwrite = FALSE
    /\ manual_nodata = None
    /\ input_path = NoMsg
    /\ temp_files = {}
    /\ stack = <<>>
    /\ files = {}
    /\ opened = {}
    /\ dst_opened = {}
    /\ uploads = {}
    \* the configuration is the chunk_config keyword argument, or the tenth
    \* positional argument
    /\ call \in [fn : {"retry_with_download"},
                 chunk_config_as : {"keyword", "positional"}]
    /\ outcome = <<>>
    /\ IdleHelpers
    /\ callers_config = chunk_config
    /\ config_is_callers = TRUE

\* retry_with_download, lines 69-82: an exception whose text has
\* "STREAMING_CHUNK_ERROR" has the function called once more, with a copy of
\* the configuration in which use_streaming is False if chunk_config is among
\* the keyword arguments, and with the arguments as they are if not; any
\* other exception is raised again.
RetryWithDownload ==
    /\ entry = "retry_with_download"
    /\ pc = "retry_except"
    /\ IF Contains(exc.msg, StrSTREAMING_CHUNK_ERROR)
       THEN /\ stack' = Append(stack, Frame)
            /\ IF call.chunk_config_as = "keyword"
               THEN /\ chunk_config' = download_config(chunk_config)
                    /\ config_is_callers' = copy(config_is_callers)
                    /\ callers_config' = IF config_is_callers'
                                         THEN chunk_config' ELSE callers_config
               ELSE UNCHANGED <<chunk_config, object_vars>>
            /\ exc' = NoExc
            /\ pc' = "fixed_chunks"
       ELSE /\ pc' = "raised"
            /\ UNCHANGED <<exc, chunk_config, stack, object_vars>>
    /\ LeaveReprojection
    /\ UNCHANGED <<entry, impl, HAS_GDAL_PROCESSOR, HAS_RIO_COGEO, file_size_gb,
                   s3_exists, overwrite, manual_nodata, input_path, temp_files,
                   files, opened, dst_opened, uploads>>
    /\ UNCHANGED pure_vars

RetryNext == EngineNext \/ RetryWithDownload

RetrySpec == RetryInit /\ [][RetryNext]_vars

\* convert_to_cog called from outside, or process_with_fixed_chunks called
\* through retry_with_download
ConfigInit == Init \/ RetryInit

ConfigNext == Next \/ RetryWithDownload

ConfigSpec == ConfigInit /\ [][ConfigNext]_vars

\* ------------------------------------------ processors/chunk_processor.py
\* what the environment does to one chunk: the read of the source raises,
\* the processing function raises or returns None, the write of the
\* destination raises, or nothing goes wrong
ChunkFates(processing_func) ==
    {"ok", "read_raises", "write_raises"}
        \cup (IF processing_func = None
              THEN {}
              ELSE {"processing_raises", "processing_returns_none"})

\* the same with a processing failure passed over: the chunk as read is
\* returned
process_single_chunk_lenient(processing_func, fate) ==
    IF fate = "read_raises"
    THEN None
    ELSE IF processing_func # None /\ fate = "processing_returns_none"
    THEN None
    ELSE "chunk_data"

\* process_single_chunk: the chunk read and processed, None when the read or
\* the processing function raised (lines 42-44)
process_single_chunk(processing_func, fate) ==
    IF fate = "read_raises"
    THEN None
    ELSE IF processing_func # None /\ fate = "processing_raises"
    THEN None
    ELSE IF processing_func # None /\ fate = "processing_returns_none"
    THEN None
    ELSE "chunk_data"

\* Window(x, y, win_width, win_height) of lines 71-73
BandWindow(x, y, w, h, cs) == Window(x, y, Min(cs, w - x), Min(cs, h - y))

\* the loops of lines 68-69 have a next iteration after the window
MoreBandWindows(win, w, h, cs) == win.x + cs < w \/ win.y + cs < h

\* the window of the next iteration of the loops of lines 68-69
NextBandWindow(win, w, h, cs) ==
    IF win.x + cs < w
    THEN BandWindow(win.x + cs, win.y, w, h, cs)
    ELSE BandWindow(0, win.y + cs, w, h, cs)

BandShapes == [width : {256, 400}, height : {256}]

BandChunkSizes == {128, 256}

\* process_band_with_chunks(src_band, dst_band, chunk_size, processing_func)
\* on a band that is not empty, before the first iteration
BandChunksInit ==
    /\ entry = "process_band_with_chunks"
    /\ pc = "chunks"
    /\ call \in [fn : {"process_band_with_chunks"}, src_band : BandShapes,
                 chunk_size : BandChunkSizes,
                 processing_func : {None, "processing_func"}]
    /\ outcome = <<>>
    /\ IdleProgram
    /\ chunk_window = BandWindow(0, 0, call.src_band.width,
                                 call.src_band.height, call.chunk_size)
    /\ total_chunks = 0
    /\ processed_chunks = 0
    /\ dst_band = {}
    /\ IdleBatch

\* Lines 70-93: one iteration of the loops. A write that raises is caught by
\* the handler of lines 100-102, which returns False.
ProcessBandChunk ==
    /\ entry = "process_band_with_chunks"
    /\ pc = "chunks"
    /\ \E fate \in ChunkFates(call.processing_func) :
        LET w == call.src_band.width
            h == call.src_band.height
            cs == call.chunk_size
            chunk_data == process_single_chunk(call.processing_func, fate)
            seen == [NoOp EXCEPT !.kind = "chunk", !.window = chunk_window]
        IN  /\ total_chunks' = total_chunks + 1
            /\ IF chunk_data # None /\ fate = "write_raises"
               THEN /\ outcome' = <<FALSE>>
                    /\ pc' = "returned"
                    /\ last_op' = [seen EXCEPT !.raised = TRUE]
                    /\ UNCHANGED <<chunk_window, processed_chunks, dst_band>>
               ELSE /\ dst_band' = (IF chunk_data # None
                                    THEN dst_band \cup {chunk_window}
                                    ELSE dst_band)
                    /\ processed_chunks' = (IF chunk_data # None
                                            THEN processed_chunks + 1
                                            ELSE processed_chunks)
                    /\ last_op' = [seen EXCEPT
                                     !.failed = (fate \in {"read_raises",
                                                           "processing_raises"})]
                    /\ IF MoreBandWindows(chunk_window, w, h, cs)
                       THEN /\ chunk_window' = NextBandWindow(chunk_window, w, h, cs)
                            /\ pc' = "chunks"
                       ELSE /\ pc' = "return"
                            /\ UNCHANGED chunk_window
                    /\ UNCHANGED outcome
    /\ UNCHANGED <<entry, call, exc, chunk_config, src, width, height,
                   src_nodata, dst_nodata, band_idx, chunk_x, chunk_y, sub_x,
                   sub_y, chunk_iterator, current_memory, dst_written,
                   dst_rewritten, caller_vars, object_vars, batch_vars>>

\* Line 98: return processed_chunks == total_chunks
ReturnBandResult ==
    /\ entry = "process_band_with_chunks"
    /\ pc = "return"
    /\ outcome' = <<processed_chunks = total_chunks>>
    /\ pc' = "returned"
    /\ UNCHANGED <<entry, call, program_vars>>

BandChunksNext == ProcessBandChunk \/ ReturnBandResult

BandChunksSpec == BandChunksInit /\ [][BandChunksNext]_vars


\* ------------------------------------------------ batch_processor_parallel.py
MaxTasks == 3
MaxWorkers == 2
MaxBatchCalls == 2

\* what a call of process_batch leaves alone
batch_frame == <<exc, chunk_config, engine_vars, caller_vars, object_vars,
                band_vars>>

\* what _process_single_file gives for a task: a result dict with one of the
\* three statuses, or an exception out of the worker process
TaskOutcomes == {"success", "skipped", "failed", "exception"}

\* ParallelCOGProcessor(s3_client, max_workers): a new processor, before
\* the first call of process_batch
BatchInit ==
    /\ entry = "process_batch"
    /\ pc = "idle"
    /\ call \in [fn : {"process_batch"}, max_workers : 1..MaxWorkers,
                 tasks : {0}]
    /\ outcome = <<>>
    /\ IdleProgram
    /\ IdleBand
    /\ stats = NewStats
    /\ results = <<>>
    /\ future_to_task = <<>>

\* process_batch(tasks), lines 99-102, and _process_parallel, lines 140-148:
\* an empty list returns at once; else total is set and every task is
\* submitted to the executor.
ProcessBatch ==
    /\ entry = "process_batch"
    /\ pc = "idle"
    /\ Len(outcome) < MaxBatchCalls
    /\ \E n \in 0..MaxTasks :
        /\ call' = [call EXCEPT !.tasks = n]
        /\ IF n = 0
           THEN /\ outcome' = Append(outcome, [tasks |-> 0, results |-> 0])
                /\ results' = <<>>
                /\ pc' = "idle"
                /\ UNCHANGED <<stats, future_to_task>>
           ELSE /\ stats' = [stats EXCEPT !.total = n]
                /\ results' = <<>>
                /\ future_to_task' = [t \in 1..n |-> [state |-> "queued",
                                                      gives |-> "none"]]
                /\ pc' = "as_completed"
                /\ UNCHANGED outcome
    /\ UNCHANGED <<entry, batch_frame>>

\* the futures in the given state
Futures(state) ==
    {t \in DOMAIN future_to_task : future_to_task[t].state = state}

\* a free worker of the pool takes the task submitted first among those
\* waiting
WorkerStarts ==
    /\ pc = "as_completed"
    /\ Futures("queued") # {}
    /\ Cardinality(Futures("running")) < call.max_workers
    /\ LET t == CHOOSE q \in Futures("queued") :
                    \A r \in Futures("queued") : q <= r
       IN  future_to_task' = [future_to_task EXCEPT ![t].state = "running"]
    /\ UNCHANGED <<entry, pc, call, outcome, stats, results, batch_frame>>

\* _process_single_file ends in its worker, lines 185-263
WorkerFinishes ==
    /\ pc = "as_completed"
    /\ \E t \in Futures("running"), gives \in TaskOutcomes :
        future_to_task' = [future_to_task EXCEPT ![t] = [state |-> "finished",
                                                         gives |-> gives]]
    /\ UNCHANGED <<entry, pc, call, outcome, stats, results, batch_frame>>

\* Lines 159-165 and 174: the counter that a finished future adds to
Counted(gives) ==
    IF gives = "success" THEN "completed"
    ELSE IF gives = "skipped" THEN "skipped"
    ELSE "failed"

\* Lines 152-181: one iteration of the loop over as_completed, on a future
\* that has finished
ConsumeFuture ==
    /\ pc = "as_completed"
    /\ \E t \in Futures("finished") :
        LET gives == future_to_task[t].gives
            key == Counted(gives)
        IN  /\ results' = Append(results, [file |-> t, status |-> key])
            /\ stats' = [stats EXCEPT ![key] = @ + 1]
            /\ future_to_task' = [future_to_task EXCEPT ![t].state = "consumed"]
    /\ UNCHANGED <<entry, pc, call, outcome, batch_frame>>

\* Lines 183 and 116-134: every future consumed, the results and the
\* statistics are returned
ReturnBatch ==
    /\ pc = "as_completed"
    /\ Futures("consumed") = DOMAIN future_to_task
    /\ outcome' = Append(outcome, [tasks |-> call.tasks, results |-> Len(results)])
    /\ pc' = "idle"
    /\ UNCHANGED <<entry, call, stats, results, future_to_task, batch_frame>>

BatchNext ==
    \/ ProcessBatch
    \/ WorkerStarts
    \/ WorkerFinishes
    \/ ConsumeFuture
    \/ ReturnBatch

BatchSpec == BatchInit /\ [][BatchNext]_vars


\* ------------------------------------------------------------------ claims
FullRaster == Window(0, 0, width, height)

GridWindows(w, h, cs) ==
    LET grid == calculate_chunk_grid(w, h, cs)
    IN  {grid.chunks[k].window : k \in 1..grid.total_chunks}

\* the rectangles the destination holds for band b
BandWindows(b) == {RectWindow(r) : r \in {q \in dst_written : q.band = b}}

\* the claims' "transport-classified" message: curl, vsi or chunk and warp,
\* case-insensitive
TransportText(msg) ==
    \/ Contains(Lower(msg), StrCurl)
    \/ Contains(Lower(msg), StrVsi)
    \/ Contains(Lower(msg), StrChunkAndWarp)

StreamingSource == Contains(src.name, StrVsis3)

InChunkLoops == pc \in {"chunk_loop", "sub_loop"}

Returned == pc = ReturnPc /\ band_idx >= 1

\* 1000 x 1000 at chunk size 256: 16 windows, 4 x 4, last row and column
\* 232 px, areas summing to 1,000,000.
GridScenario ==
    LET grid == calculate_chunk_grid(1000, 1000, 256)
        wins == GridWindows(1000, 1000, 256)
    IN  /\ grid.total_chunks = 16
        /\ grid.chunks_x = 4
        /\ grid.chunks_y = 4
        /\ Cardinality(wins) = 16
        /\ SumArea(wins) = 1000000
        /\ Tiles(wins, Window(0, 0, 1000, 1000))
        /\ \A k \in 1..16 :
            LET c == grid.chunks[k]
            IN  /\ c.window.w = (IF c.index[1] = 3 THEN 232 ELSE 256)
                /\ c.window.h = (IF c.index[2] = 3 THEN 232 ELSE 256)

\* C1: the outer windows of calculate_chunk_grid and of the chunk_y/chunk_x
\* loops tile [0,width) x [0,height) exactly: every pixel in exactly one
\* window, edge windows clipped to min(chunk_size, remaining extent), none
\* padded or skipped, areas summing to width*height; every window the loops
\* process is a window of that grid and a completed band holds them all.
C1_GridCoverage ==
    LET grid == calculate_chunk_grid(width, height, FIXED_CHUNK_SIZE)
        wins == GridWindows(width, height, FIXED_CHUNK_SIZE)
    IN  /\ Cardinality(wins) = grid.total_chunks
        /\ Tiles(wins, FullRaster)
        /\ SumArea(wins) = width * height
        /\ \A c \in wins :
            /\ c.w = Min(FIXED_CHUNK_SIZE, width - c.x)
            /\ c.h = Min(FIXED_CHUNK_SIZE, height - c.y)
        /\ InChunkLoops => OuterWindow \in wins
        /\ last_op.kind = "direct" => last_op.window \in wins
        /\ last_op.kind = "sub" => \E c \in wins : Inside(last_op.window, c)
        /\ Returned => \A b \in 1..src.count : BandWindows(b) = wins
        /\ GridScenario

C1_Witness ==
    /\ Returned
    /\ width = 400
    /\ height = 256
    /\ FIXED_CHUNK_SIZE = 128
    /\ src.count = 2
    /\ BandWindows(2) = GridWindows(400, 256, 128)

\* C2: for an outer chunk size that is a multiple of 128, every sub-chunk
\* window handled under memory pressure has an origin that is a multiple of
\* 128 in x and in y, relative to the raster origin.
C2_SubChunkAlignment ==
    (FIXED_CHUNK_SIZE % 128 = 0 /\ last_op.kind = "sub")
        => (last_op.window.x % 128 = 0 /\ last_op.window.y % 128 = 0)

C2_Witness ==
    /\ FIXED_CHUNK_SIZE = 256
    /\ last_op.kind = "sub"
    /\ last_op.window = Window(384, 384, 16, 16)
    /\ last_op.band = 2

\* C3: when process_with_fixed_chunks returns normally every pixel of every
\* band 1..count has been written exactly once, whatever the memory readings
\* and the absorbed reprojection failures; the call ends either so or with an
\* exception.
C3_ExactlyOnce ==
    /\ Returned =>
        /\ exc = NoExc
        /\ ~dst_rewritten
        /\ \A r \in dst_written : r.band \in 1..src.count
        /\ \A b \in 1..src.count : Tiles(BandWindows(b), FullRaster)
    /\ pc = RaisePc => exc # NoExc
    /\ (\E b \in 1..src.count : ~Tiles(BandWindows(b), FullRaster)) => pc # ReturnPc

C3_Witness ==
    /\ Returned
    /\ src.count = 2
    /\ width = 400
    /\ height = 400
    /\ FIXED_CHUNK_SIZE = 256
    /\ last_op.kind = "sub"
    /\ last_op.failed

\* C4: the outer windows visited and the pixels written are a function of
\* width, height, chunk_size and the band count alone: after n outer chunks
\* of a band the band holds exactly the first n windows of the grid and the
\* next window is the grid's window n+1, whatever memory readings were
\* taken; a reading decides only between one write of the outer window and
\* writes of sub-windows of at most 128 x 128 inside it.
C4_MemoryIndependence ==
    LET grid == calculate_chunk_grid(width, height, FIXED_CHUNK_SIZE)
        wins == GridWindows(width, height, FIXED_CHUNK_SIZE)
        n == chunk_iterator
        here == {w \in BandWindows(band_idx) : Inside(w, OuterWindow)}
    IN  /\ InChunkLoops =>
            /\ n < grid.total_chunks
            /\ OuterWindow = grid.chunks[n + 1].window
            /\ BandWindows(band_idx) \ here = {grid.chunks[k].window : k \in 1..n}
            /\ pc = "chunk_loop" => here = {}
            /\ \A b \in 1..(band_idx - 1) : BandWindows(b) = wins
        /\ Returned => \A b \in 1..src.count : BandWindows(b) = wins
        /\ last_op.kind = "direct" => last_op.window \in wins
        /\ last_op.kind = "sub" =>
            /\ last_op.memory > memory_limit_mb(chunk_config)
            /\ last_op.window.w <= 128
            /\ last_op.window.h <= 128
            /\ \E c \in wins : Inside(last_op.window, c)

\* an outer window written as a unit under a low reading, the next outer
\* window of the same band subdivided under a high one
C4_Witness ==
    /\ pc = "sub_loop"
    /\ sub_x = 0
    /\ sub_y = 0
    /\ chunk_iterator >= 1
    /\ current_memory > memory_limit_mb(chunk_config)
    /\ last_op.kind = "direct"
    /\ last_op.band = band_idx
    /\ last_op.window.w > 128
    /\ last_op.window.h > 128
    /\ last_op.memory <= memory_limit_mb(chunk_config)

\* C5: a reprojection failure whose message contains "curl", "vsi" or
\* "chunk and warp" (case-insensitive) on a source whose name contains
\* "/vsis3/" raises the streaming error, on a directly written outer chunk
\* and on a sub-chunk alike.
C5_StreamingClassification ==
    (last_op.failed /\ TransportText(last_op.error) /\ StreamingSource)
        => /\ last_op.raised
           /\ pc = RaisePc
           /\ exc = [type |-> "Exception", msg |-> StreamingChunkErrorMsg]

\* C6: when the streaming error is raised the function is left at once with
\* that error, and the destination holds no write of the failing (sub-)chunk,
\* of a later chunk of the band or of a later band: only the outer chunks
\* completed before and the sub-chunks that precede the failing one.
C6_StreamingAbort ==
    LET grid == calculate_chunk_grid(width, height, FIXED_CHUNK_SIZE)
        fw == last_op.window
    IN  /\ last_op.raised =>
            /\ pc = RaisePc
            /\ exc = [type |-> "Exception", msg |-> StreamingChunkErrorMsg]
            /\ last_op.written = NoBuffer
        /\ (pc = RaisePc /\ exc.msg = StreamingChunkErrorMsg) =>
            /\ last_op.raised
            /\ last_op.band = band_idx
            /\ \A r \in dst_written : r.band <= band_idx
            /\ \A w \in BandWindows(band_idx) :
                /\ ~Overlap(w, fw)
                /\ \/ \E k \in 1..chunk_iterator : w = grid.chunks[k].window
                   \/ /\ last_op.kind = "sub"
                      /\ Inside(w, OuterWindow)
                      /\ (w.y < fw.y \/ (w.y = fw.y /\ w.x < fw.x))

C6_Witness ==
    /\ pc = RaisePc
    /\ last_op.kind = "sub"
    /\ last_op.window.x > chunk_x
    /\ chunk_iterator >= 1
    /\ band_idx = 2
    /\ \E w \in BandWindows(2) : Inside(w, OuterWindow)

\* the retry attempt of a call of main_processor.convert_to_cog is running
\* after an attempt that read the source through the streaming path
InRetry ==
    /\ impl = "main_processor"
    /\ Len(stack) = 1
    /\ stack[1].input_path = StreamingPath
    /\ stack[1].e.msg = StreamingChunkErrorMsg

\* failures of the environment of an attempt: S3 and the local disk
EnvironmentFailures ==
    {MsgClientError, MsgDownloadFailed, MsgOpenFailed, MsgCreateFailed,
     MsgUploadFailed}

\* C7: the retry after a streaming error restarts the whole file: it opens
\* no /vsis3/ path, and unless S3 or the local disk fails it reopens the
\* destination file in write mode and writes every chunk of every band again,
\* exactly once, whatever the failed attempt had written.
C7_RetryRestartsWholeFile ==
    InRetry =>
        /\ \A o \in opened : o.attempt = 2 => o.path = LocalDownloadPath
        /\ (pc = "finally" /\ exc.msg \notin EnvironmentFailures) =>
            /\ 2 \in dst_opened
            /\ ~dst_rewritten
            /\ \A b \in 1..src.count : Tiles(BandWindows(b), FullRaster)

C9_LocalRecovery ==
    (last_op.failed /\ ~(TransportText(last_op.error) /\ StreamingSource))
        => /\ ~last_op.raised
           /\ exc = NoExc
           /\ pc \in {"chunk_loop", "sub_loop", ReturnPc}
           /\ last_op.written.vals = {IF dst_nodata # None THEN dst_nodata ELSE "0"}
           /\ \E r \in dst_written :
                r.band = last_op.band /\ Inside(last_op.window, RectWindow(r))

C9_Witness ==
    /\ last_op.failed
    /\ last_op.error = MsgCurl
    /\ src.name = LocalDownloadPath
    /\ last_op.kind = "direct"
    /\ pc = "chunk_loop"
    /\ Rect(last_op.band, last_op.window) \in dst_written

\* C10: every chunk buffer has the shape of its window and is filled with
\* dst_nodata, or 0 if dst_nodata is None, before the reprojection call; the
\* buffer written after a non-streaming reprojection error has every element
\* equal to dst_nodata, or 0 if dst_nodata is None.
C10_BufferFill ==
    LET expected == IF dst_nodata # None THEN dst_nodata ELSE "0"
    IN  last_op.kind # "none" =>
            /\ last_op.prefill.shape = <<last_op.window.h, last_op.window.w>>
            /\ last_op.prefill.vals = {expected}
            /\ (last_op.failed /\ ~last_op.raised) =>
                /\ last_op.written.shape = <<last_op.window.h, last_op.window.w>>
                /\ last_op.written.vals = {expected}

C10_Witness ==
    /\ last_op.failed
    /\ ~last_op.raised
    /\ last_op.kind = "sub"
    /\ dst_nodata = None
    /\ last_op.written = [shape |-> <<64, 128>>, vals |-> {"0"}]

\* the last iteration of the chunk engine ran under convert_to_cog on a file
\* whose own no-data value differs from the resolved destination value
SentinelsDiffer ==
    /\ entry = "convert_to_cog"
    /\ last_op.kind \in {"direct", "sub"}
    /\ src.nodata # None
    /\ resolve_nodata(src, manual_nodata) # src.nodata

\* C11: when the file's no-data value and the resolved destination value
\* differ, every reprojection call of the chunk engine gets the file's value
\* as src_nodata and the resolved value as dst_nodata, so that no pixel with
\* the file's no-data value is written.
C11_NodataArguments ==
    SentinelsDiffer =>
        /\ last_op.src_nodata = src.nodata
        /\ last_op.dst_nodata = resolve_nodata(src, manual_nodata)
        /\ src.nodata \notin last_op.written.vals

\* C12: an outer chunk goes through the sub-chunk loop exactly when the
\* memory reading taken for it is above memory_limit_mb and its window is
\* larger than 128 in width and in height; otherwise it is reprojected and
\* written as one unit.
C12_SubdivisionCondition ==
    LET wins == GridWindows(width, height, FIXED_CHUNK_SIZE)
        limit == memory_limit_mb(chunk_config)
    IN  /\ pc = "sub_loop" =>
            /\ current_memory > limit
            /\ OuterWindow.w > 128
            /\ OuterWindow.h > 128
        /\ last_op.kind = "sub" =>
            /\ last_op.memory > limit
            /\ \E c \in wins : /\ Inside(last_op.window, c)
                               /\ c.w > 128
                               /\ c.h > 128
        /\ last_op.kind = "direct" =>
            /\ last_op.window \in wins
            /\ \/ last_op.memory <= limit
               \/ last_op.window.w <= 128
               \/ last_op.window.h <= 128

\* under memory pressure a window of 128 columns or fewer, more than 128
\* rows high, was written as one unit
C12_Witness ==
    /\ last_op.kind = "direct"
    /\ last_op.memory > memory_limit_mb(chunk_config)
    /\ last_op.window.w <= 128
    /\ last_op.window.h > 128
    /\ Rect(last_op.band, last_op.window) \in dst_written

\* C13: the NaN/Inf fix applied to the buffer that a first application
\* returned returns that buffer again, for every buffer, data type and
\* no-data value.
C13_FixIdempotent ==
    (entry = "check_and_fix_nan_values" /\ Len(outcome) >= 1 /\ ~outcome[1].raised) =>
        /\ pc # "raised"
        /\ Len(outcome) = 2 =>
            /\ ~outcome[2].raised
            /\ outcome[2].data = outcome[1].data


\* the values a chunk buffer holds when it is handed to the NaN fix
FixInput(op) ==
    IF op.failed THEN {FillValue(op.dst_nodata)} ELSE op.reprojected

NonFinite == {"NaN", "Inf", "-Inf"}

\* C14: for a floating-point band the buffer written by an iteration of the
\* chunk loops is the reprojected buffer with every NaN, +Infinity and
\* -Infinity replaced by dst_nodata and every other value unchanged, so it
\* holds no NaN and no infinity; for an integer band it is the reprojected
\* buffer as it is.
C14_WrittenChunksFinite ==
    (last_op.kind \in {"direct", "sub"} /\ last_op.written # NoBuffer) =>
        IF IsFloating(src.dtype)
        THEN /\ last_op.written.vals \cap NonFinite = {}
             /\ last_op.written.vals =
                    {IF v \in NonFinite THEN last_op.dst_nodata ELSE v : v \in FixInput(last_op)}
        ELSE last_op.written.vals = FixInput(last_op)


BufferSize(buf) == buf.shape[1] * buf.shape[2]

SubGrid(outer) ==
    {Window(outer.x + i * 128, outer.y + j * 128,
            Min(128, outer.w - i * 128), Min(128, outer.h - j * 128)) :
        i \in 0..((outer.w - 1) \div 128), j \in 0..((outer.h - 1) \div 128)}

\* the sub-windows that the sub-chunk loops have passed, row by row
SubGridBefore(outer, sx, sy) ==
    {g \in SubGrid(outer) :
        \/ g.y - outer.y < sy
        \/ g.y - outer.y = sy /\ g.x - outer.x < sx}

\* the outer window that a written window belongs to
OuterWindowOf(win) ==
    CHOOSE c \in GridWindows(width, height, FIXED_CHUNK_SIZE) : Inside(win, c)

\* C16: the sub-windows of an outer window in sub-chunk mode start at steps
\* of 128 from the outer window's origin, are clipped at the outer window's
\* boundary and partition the outer window exactly: inside the loops the
\* windows written are the ones of that grid passed so far, each sub-window
\* written is one of the grid, and when the loops are left the outer window
\* is covered once. The outer window (512, 768, 256, 256) gives the four
\* sub-windows of 128 x 128 at (512, 768), (640, 768), (512, 896), (640, 896).
C16_SubWindowsPartition ==
    /\ pc = "sub_loop" =>
        /\ SubWindow \in SubGrid(OuterWindow)
        /\ {RectWindow(r) : r \in {q \in dst_written :
                q.band = band_idx /\ Inside(RectWindow(q), OuterWindow)}}
             = SubGridBefore(OuterWindow, sub_x, sub_y)
        /\ Tiles(SubGrid(OuterWindow), OuterWindow)
        /\ OuterWindow = Window(512, 768, 256, 256) =>
              SubGrid(OuterWindow) = {Window(512, 768, 128, 128), Window(640, 768, 128, 128),
                                      Window(512, 896, 128, 128), Window(640, 896, 128, 128)}
    /\ (last_op.kind = "sub" /\ last_op.written # NoBuffer) =>
        /\ last_op.window \in SubGrid(OuterWindowOf(last_op.window))
        /\ pc # "sub_loop" => Rect(last_op.band, OuterWindowOf(last_op.window)) \in dst_written

\* the last of the four sub-windows of the outer window (512, 768, 256, 256)
\* is written and the loops are left
C16_Witness ==
    /\ last_op.kind = "sub"
    /\ last_op.window = Window(640, 896, 128, 128)
    /\ OuterWindowOf(last_op.window) = Window(512, 768, 256, 256)
    /\ Rect(1, Window(512, 768, 256, 256)) \in dst_written
    /\ pc = "returned"


\* C17: in process_whole_file a failure of the reprojection or of the write
\* of band b ends the call: the exception leaves the function as it was
\* raised, with its type and its message, nothing of band b or of a later
\* band is written and no buffer is filled with the no-data value in its
\* place; the bands before b stay written, once each, and each band is
\* attempted once.
C17_WholeFileFailureFatal ==
    (entry = "process_whole_file" /\ last_op.kind = "whole") =>
        /\ last_op.band = band_idx
        /\ dst_written = {Rect(k, FullRaster) :
                             k \in 1..(IF last_op.failed THEN band_idx - 1 ELSE band_idx)}
        /\ ~dst_rewritten
        /\ last_op.failed =>
            /\ pc = "raised"
            /\ exc.msg = last_op.error
            /\ exc.type # "none"
            /\ last_op.written = NoBuffer
        /\ ~last_op.failed => exc = NoExc /\ pc # "raised"

\* the second band fails in the reprojection after the first was written
C17_Witness ==
    /\ entry = "process_whole_file"
    /\ last_op.kind = "whole"
    /\ last_op.failed
    /\ last_op.band = 2
    /\ last_op.error = MsgChunkAndWarp
    /\ exc = [type |-> "WarpOperationError", msg |-> MsgChunkAndWarp]
    /\ dst_written = {Rect(1, FullRaster)}

\* C18: in process_whole_file the array written for a floating-point band is
\* the reprojected array with every NaN, +Infinity and -Infinity replaced by
\* dst_nodata and every other value unchanged.
C18_WholeFileFinite ==
    (entry = "process_whole_file" /\ last_op.kind = "whole"
        /\ last_op.written # NoBuffer /\ IsFloating(src.dtype)) =>
        last_op.written.vals =
            {IF v \in NonFinite THEN last_op.dst_nodata ELSE v : v \in last_op.reprojected}


\* the states inside process_with_fixed_chunks
InFixedChunks == pc \in {"fixed_chunks", "chunk_loop", "sub_loop"}

\* C19: convert_to_cog runs process_whole_file only on a configuration that
\* has use_whole_file_processing set and a file below 1.5 GB, and runs
\* process_with_fixed_chunks in every other case; get_chunk_config sets
\* use_whole_file_processing only for sizes of at most 1.5 GB; inside
\* process_with_fixed_chunks no band is processed as a whole.
C19_WholeFileSelection ==
    LET flag == dict_get(chunk_config, "use_whole_file_processing", FALSE)
        small == file_size_gb < 15
    IN  /\ (pc = "whole_file" \/ last_op.kind = "whole") =>
            /\ impl = "lib.main_processor"
            /\ flag /\ small
        /\ (entry = "convert_to_cog" /\ impl = "lib.main_processor" /\ InFixedChunks) =>
            ~(flag /\ small)
        /\ InFixedChunks => last_op.kind # "whole"
        /\ \A size \in 0..(GdalSizeLimit + 20) :
            dict_get(get_chunk_config(size), "use_whole_file_processing", FALSE)
                => size <= 15

\* the configuration chosen for a file of under 1.5 GB takes the whole-file
\* path, after which the last band is written as a whole
C19_Witness ==
    /\ entry = "convert_to_cog"
    /\ chunk_config = get_chunk_config(file_size_gb)
    /\ file_size_gb < WholeFileSizeLimit
    /\ last_op.kind = "whole"
    /\ last_op.band = src.count
    /\ Rect(src.count, FullRaster) \in dst_written


\* C20: the dict that the caller passes as chunk_config, to convert_to_cog
\* or to retry_with_download, keeps its contents through the whole run, its
\* use_streaming entry included: the engine reads the configuration and a
\* retry works on a copy.
C20_ConfigNotMutated == [][callers_config' = callers_config]_vars

\* a retry runs with streaming switched off in its own configuration while
\* the caller's dict still has use_streaming True
C20_Witness ==
    /\ Len(stack) = 1
    /\ "use_streaming" \in DOMAIN callers_config
    /\ callers_config.use_streaming
    /\ ~use_streaming(chunk_config)
    /\ ~config_is_callers
    /\ InFixedChunks


\* every band of the destination file is covered by the windows written to it
FullyWritten ==
    \A b \in 1..src.count : Tiles(BandWindows(b), FullRaster)

WrittenBefore(a, b) ==
    LET oa == OuterWindowOf(a.window)
        ob == OuterWindowOf(b.window)
        ka == <<a.band, oa.y, oa.x, a.window.y, a.window.x>>
        kb == <<b.band, ob.y, ob.x, b.window.y, b.window.x>>
    IN  \E i \in 1..5 : ka[i] < kb[i] /\ \A j \in 1..(i - 1) : ka[j] = kb[j]

\* C22: the bands are processed in ascending order from 1, the outer chunks
\* of a band in row-major order, as calculate_chunk_grid lists them, and the
\* sub-chunks of an outer window in row-major order: each write comes after
\* the one before it in that order, the first write is the first window of
\* band 1, a write of the next band comes only once the band before is
\* covered, and the outer window being processed is the one the grid has at
\* the position of the count of chunks completed in the band.
C22_ProcessingOrder ==
    [][LET before == last_op
           after == last_op'
           grid == calculate_chunk_grid(width, height, FIXED_CHUNK_SIZE)
       IN  /\ (pc' \in {"chunk_loop", "sub_loop"}) =>
                /\ band_idx' \in 1..src.count
                /\ chunk_iterator' < grid.total_chunks
                /\ OuterWindow' = grid.chunks[chunk_iterator' + 1].window
           /\ (after # before /\ after.written # NoBuffer) =>
                /\ after.band = band_idx
                /\ before.kind = "none" =>
                    /\ after.band = 1
                    /\ after.window.x = 0 /\ after.window.y = 0
                /\ before.kind # "none" =>
                    /\ WrittenBefore(before, after)
                    /\ after.band \in {before.band, before.band + 1}
                    /\ after.band = before.band + 1 =>
                        Tiles(BandWindows(before.band), FullRaster)
                /\ \A r \in dst_written : r.band <= after.band
      ]_vars

\* the second band is being written in sub-chunks, in the second row of an
\* outer window that is not the first of its band
C22_Witness ==
    /\ entry = "process_with_fixed_chunks"
    /\ last_op.kind = "sub"
    /\ last_op.band = 2
    /\ last_op.window.y > OuterWindowOf(last_op.window).y
    /\ OuterWindowOf(last_op.window).x > 0
    /\ OuterWindowOf(last_op.window).y > 0
    /\ last_op.written # NoBuffer


\* C23: a collection is run after the write of every sub-chunk; after the
\* write of an outer chunk written directly one is run exactly when
\* aggressive_gc is set; after the last chunk of each band, and only then,
\* the memory is sampled exactly when enable_memory_monitoring is set (or
\* absent, its default being True) and a collection is run exactly when
\* aggressive_gc is set.
C23_GarbageCollectionPolicy ==
    LET aggressive == "aggressive_gc" \in DOMAIN chunk_config /\ chunk_config.aggressive_gc
        monitoring == "enable_memory_monitoring" \in DOMAIN chunk_config
                          => chunk_config.enable_memory_monitoring
        band_done == Tiles(BandWindows(last_op.band), FullRaster)
    IN  (last_op.kind \in {"direct", "sub"} /\ last_op.written # NoBuffer) =>
            /\ last_op.kind = "sub" => last_op.gc_after_write
            /\ last_op.kind = "direct" => (last_op.gc_after_write <=> aggressive)
            /\ last_op.memory_sampled <=> (band_done /\ monitoring)
            /\ last_op.gc_after_band <=> (band_done /\ aggressive)

\* the last sub-chunk of the first band is written under a configuration
\* that switches both the collections and the monitoring off
C23_Witness ==
    /\ entry = "process_with_fixed_chunks"
    /\ "aggressive_gc" \in DOMAIN chunk_config /\ ~chunk_config.aggressive_gc
    /\ "enable_memory_monitoring" \in DOMAIN chunk_config
    /\ ~chunk_config.enable_memory_monitoring
    /\ last_op.kind = "sub"
    /\ last_op.band = 1
    /\ last_op.gc_after_write
    /\ ~last_op.gc_after_band
    /\ ~last_op.memory_sampled
    /\ Tiles(BandWindows(1), FullRaster)
    /\ src.count = 2


\* C24: the chunk size of every configuration that get_chunk_config,
\* get_adaptive_chunk_config and get_memory_safe_config return, the default
\* for a configuration without default_chunk_size, and the value of
\* calculate_optimal_chunk_size are positive multiples of 128; the value of
\* calculate_optimal_chunk_size is between 128 and 4096.
C24_ChunkSizesAligned ==
    (entry = "chunk_size" /\ pc = "returned") =>
        /\ outcome[1] > 0
        /\ outcome[1] % 128 = 0
        /\ call.fn = "calculate_optimal_chunk_size" =>
            (outcome[1] >= 128 /\ outcome[1] <= 4096)

\* a memory target whose square root is not a multiple of 128 is rounded
\* down to one
C24_Witness ==
    /\ entry = "chunk_size"
    /\ pc = "returned"
    /\ call.fn = "calculate_optimal_chunk_size"
    /\ ClampedRoot((call.target_memory_mb * 1024 * 1024) \div (call.bands * call.dtype_size)) = 362
    /\ outcome[1] = 256


\* C25: retry_with_download calls the function at most twice; a second call
\* follows a failure whose text has "STREAMING_CHUNK_ERROR" and is given a
\* configuration whose use_streaming is False, whether the configuration was
\* passed by keyword or by position; a failure of the first call without
\* that text is raised after the one call.
C25_RetryInDownloadMode ==
    entry = "retry_with_download" =>
        /\ Len(stack) <= 1
        /\ Len(stack) = 1 =>
            /\ Contains(stack[1].e.msg, StrSTREAMING_CHUNK_ERROR)
            /\ "use_streaming" \in DOMAIN chunk_config
            /\ ~chunk_config.use_streaming
        /\ (pc = "raised" /\ stack = <<>>) =>
            ~Contains(exc.msg, StrSTREAMING_CHUNK_ERROR)


\* C26: process_band_with_chunks returns True exactly when every window of the
\* band's grid has been written to the destination. A chunk whose read or
\* processing function raised is not in the destination; the loops go on to
\* the next window of the grid after it, every window of the grid is visited
\* before the normal return, and the value returned is then False.
C26_BandResultCountsEveryChunk ==
    entry = "process_band_with_chunks" =>
        LET grid == calculate_chunk_grid(call.src_band.width,
                                         call.src_band.height, call.chunk_size)
            wins == {grid.chunks[k].window : k \in 1..grid.total_chunks}
        IN  /\ dst_band \subseteq wins
            /\ Cardinality(dst_band) = processed_chunks
            /\ pc = "returned" => (outcome[1] <=> dst_band = wins)
            /\ pc = "return" => total_chunks = grid.total_chunks
            /\ (last_op.kind = "chunk" /\ last_op.failed) =>
                   /\ last_op.window \notin dst_band
                   /\ last_op.window = grid.chunks[total_chunks].window
                   /\ pc = "chunks" =>
                          chunk_window = grid.chunks[total_chunks + 1].window
                   /\ pc # "chunks" => total_chunks = grid.total_chunks
                   /\ pc = "returned" => outcome = <<FALSE>>

\* a band of 4x2 chunks whose first chunk was not written and whose last
\* chunk raised, the six chunks between them written, False returned
C26_Witness ==
    /\ entry = "process_band_with_chunks"
    /\ pc = "returned"
    /\ outcome = <<FALSE>>
    /\ total_chunks = 8
    /\ processed_chunks = 6
    /\ last_op.failed
    /\ last_op.window = Window(384, 128, 16, 128)
    /\ Window(0, 0, 128, 128) \notin dst_band
    /\ Window(256, 128, 128, 128) \in dst_band


\* C27: a call of convert_to_cog from outside makes at most one nested retry
\* call, so at most two attempts open a destination file. The nested call
\* runs with use_streaming False, and whatever exception reaches its except
\* block, one with the text of a streaming error included, goes to its
\* finally block and out unchanged, without a further call.
C27_AtMostOneRetry ==
    /\ [](/\ Len(stack) <= 1
          /\ dst_opened \subseteq {1, 2}
          /\ stack # <<>> => ~use_streaming(chunk_config))
    /\ [][(pc = "except" /\ stack # <<>>) =>
              /\ pc' = "finally"
              /\ exc' = exc
              /\ stack' = stack]_vars

\* the retry attempt failed with the streaming error of the chunk engine's
\* text and the error went out of both calls
C27_Witness ==
    /\ stack = <<>>
    /\ pc = "raised"
    /\ 2 \in dst_opened
    /\ Contains(Lower(exc.msg), StrChunkAndWarp)
    /\ ~use_streaming(download_config(chunk_config))
    /\ use_streaming(chunk_config)


\* C28: the retry call of convert_to_cog runs with the manual_nodata and the
\* overwrite of the call that retries, so that it resolves the same no-data
\* value and makes the same decision on an existing destination key.
C28_RetryKeepsArguments ==
    stack # <<>> =>
        /\ manual_nodata = stack[Len(stack)].manual_nodata
        /\ overwrite = stack[Len(stack)].overwrite


\* C29: when the call of convert_to_cog from outside has come to its end,
\* returned or raised, no local file made during the call is left: the
\* downloaded input, reproj/<cog_filename> and the temporary COG are gone,
\* and the only local file there can be is a download cache file that was
\* there before the call, which no call has in its temp_files.
C29_LocalFilesRemoved ==
    (entry = "convert_to_cog" /\ stack = <<>> /\ pc \in {"returned", "raised"}) =>
        /\ files \subseteq {"download"}
        /\ "download" \in files => "download" \notin temp_files


\* C30: after every call of process_batch on a processor, whatever calls
\* came before it, the results hold exactly one entry for each task of the
\* call and completed + failed + skipped is the total of the statistics.
C30_BatchStatistics ==
    (entry = "process_batch" /\ pc = "idle" /\ outcome # <<>>) =>
        /\ Len(results) = outcome[Len(outcome)].tasks
        /\ \A t \in 1..outcome[Len(outcome)].tasks :
               Cardinality({k \in 1..Len(results) : results[k].file = t}) = 1
        /\ stats.completed + stats.failed + stats.skipped = stats.total

=============================================================================
